---- MODULE Spec2Model ----
(***************************************************************************)
(* Model of the isopod-rs rendering core: the resource registry            *)
(* (IDArenaCell), the per-frame update queue and draw log (GfxCtx), and     *)
(* VulkanGfxBackend::render with its two frame resource sets, the single   *)
(* destroy queue, the image layout tracking and the GPU timeline.          *)
(***************************************************************************)
EXTENDS Integers, Sequences, FiniteSets, TLC

\* ------------------------------------------------------------------ bounds

\* user registrations per session (the console's three come on top)
MaxResources == 2
\* shaders among them
MaxShaders == 1
\* user set_canvas / draw calls per session
MaxLog == 2
\* render calls per session
MaxFrames == 3
\* frames of a session in which the window reports a zero extent or the
\* acquire returns anything but Ok(_, false)
MaxFaults == 2
\* the largest length in bytes handed to a VKBuffer; it stands for isize::MAX,
\* the largest length a slice or a Vec can have
MaxBytes == 5
\* calls made on the VKBuffer that is modelled alone
MaxCalls == 3
\* the largest number of vertices of a mesh drawn through the GfxCtx that is
\* modelled alone
MaxVertices == 3
\* set_canvas and draw calls of one frame of that GfxCtx
MaxDrawCalls == 2
MaxFields == 3
\* images of the swapchain
SwapImages == 1

\* ------------------------------------------------------------------ program constants

ID_NONE == -1
MAX_MATERIALS == 4
\* the largest push constant block, in bytes
MAX_PUSH == 128

\* the categories of GfxResources, in the order start_update scans them
Categories == <<"Framebuffer", "Instances", "Mesh", "Sampler", "Shader", "Texture2D", "Uniform">>
CategorySet == {Categories[i] : i \in 1..Len(Categories)}
\* the categories the modelled application registers: its shaders in load_fn,
\* kept for the session, and framebuffers at any time
UserCategories == {"Framebuffer", "Shader"}

\* ------------------------------------------------------------------ values

Range(s) == {s[i] : i \in 1..Len(s)}

\* Option<Weak<T>> of an IDVec slot: the Arc it points to is told by uid,
\* def is the definition the Arc holds (the material slots of a shader),
\* strong is Weak::strong_count()
NoSlot == [uid |-> -1, def |-> 0, strong |-> 0]
Slot(uid, def) == [uid |-> uid, def |-> def, strong |-> 1]
IsSome(slot) == slot.uid # -1

\* VKImage.layout / VKImage.access_mask
ImgState(l, a) == [layout |-> l, access |-> a]
NewImage == ImgState("UNDEFINED", "NONE")
TransferDst == ImgState("TRANSFER_DST_OPTIMAL", "TRANSFER_WRITE")
ShaderRead == ImgState("SHADER_READ_ONLY_OPTIMAL", "SHADER_READ")
ColorAttachment == ImgState("COLOR_ATTACHMENT_OPTIMAL", "COLOR_ATTACHMENT_READ_WRITE")
DepthAttachment == ImgState("DEPTH_STENCIL_ATTACHMENT_OPTIMAL", "DEPTH_STENCIL_ATTACHMENT_READ_WRITE")
PresentSrc == ImgState("PRESENT_SRC_KHR", "NONE")

\* a backend object of any table: uid tells the GPU object, def its
\* definition (material slots of a pipeline), color / depth its images
NoObj == [uid |-> -1, def |-> 0, color |-> NewImage, depth |-> NewImage]
Obj(uid, def) == [uid |-> uid, def |-> def, color |-> NewImage, depth |-> NewImage]

\* vk::Image handles
ImgTexture(uid) == <<"Texture2D", uid>>
ImgFbColor(uid) == <<"FramebufferColor", uid>>
ImgFbDepth(uid) == <<"FramebufferDepth", uid>>
ImgSwapColor(i) == <<"SwapchainColor", i>>
ImgSwapDepth == <<"SwapchainDepth", 0>>
NoImg == <<"none", -1>>
\* the index buffer of a mesh as the target of a copy
MeshIndices(uid) == <<"MeshIndices", uid>>

\* ResourceUpdate
UpdCreate(ty, id, uid, def) == [op |-> "Create", ty |-> ty, id |-> id, uid |-> uid, def |-> def]
UpdFree(ty, id) == [op |-> "Free", ty |-> ty, id |-> id, uid |-> -1, def |-> 0]

\* MaterialAttributeRefID
AttrRef(kind, id) == [kind |-> kind, id |-> id]

\* DrawCmd; CanvasID::Screen is id = -1, CanvasID::Framebuffer(i) is id = i
CanvasScreen == -1
DcSetCanvas(id, clear) ==
  [op |-> "SetCanvas", id |-> id, clear |-> clear, slot |-> 0, attributes |-> <<>>, mesh |-> -1]
DcSetShader(id) ==
  [op |-> "SetShader", id |-> id, clear |-> FALSE, slot |-> 0, attributes |-> <<>>, mesh |-> -1]
DcSetMaterial(attributes, slot) ==
  [op |-> "SetMaterial", id |-> -1, clear |-> FALSE, slot |-> slot, attributes |-> attributes, mesh |-> -1]
\* mesh = -1 is an immediate mesh, otherwise MeshDraw::Resource(mesh)
DcDrawMesh(mesh) ==
  [op |-> "DrawMesh", id |-> -1, clear |-> FALSE, slot |-> 0, attributes |-> <<>>, mesh |-> mesh]

\* a recorded command: op, the image and state of a barrier / clear / copy /
\* attachment, the object uid it refers to, the index of the DrawCmd it replays
Cmd(op, img, st, uid, at) ==
  [op |-> op, img |-> img, st |-> st, old |-> NewImage, uid |-> uid, at |-> at, set |-> -1,
   variant |-> -1]
\* the object an image belongs to, -1 for the images of the swapchain
ImgOwner(img) ==
  IF img[1] \in {"Texture2D", "FramebufferColor", "FramebufferDepth"} THEN img[2] ELSE -1
\* one vk::ImageMemoryBarrier of a cmd_pipeline_barrier call
CmdBarrier(b) ==
  [Cmd("pipeline_barrier", b.image, b.new, ImgOwner(b.image), -1) EXCEPT !.old = b.old]

\* ------------------------------------------------------------------ state

VARIABLES
  \* GfxCtx
  resources,              \* GfxResources: per category an IDArenaCell [vec, free]
  resource_update_queue,  \* frame_data.resource_update_queue
  draw_cmd_queue,         \* frame_data.draw_cmd_queue
  current_pipeline,       \* frame_data.current_pipeline
  current_material_ids,   \* frame_data.current_material_ids
  next_id,                \* frame_data.next_id
  window_size,            \* window_canvas.size: 0 is a zero extent
  \* VulkanGfxBackend
  tables,                 \* pipelines, texture_2ds, ... : per category a SparseVec
  destroy_queue,          \* destroy_queue
  even_frame,             \* even_frame
  frame_resources,        \* the two FrameResources: the fence resources_usable (TRUE is
                          \* signaled), the pending signals of the two semaphores, and
                          \* the frame of the last submit that used the set
  surface,                \* VKSurface: swapchain_is_bad, color_images, depth_image
  \* locals of render
  pc,                     \* position of the driving thread in run / render
  swapchain_draw_data,    \* Option<SwapchainDrawData>: image index, -1 is None
  acquire_result,         \* what acquire_next_image returned in this call, "none" before
  desc_sets,              \* descriptor sets allocated in step 5
  cmd,                    \* commands recorded into cfr.cmd_buffer by this call
  presented,              \* whether this call issued queue_present
  present_result,         \* what queue_present returned in this call, "none" without one
  reconstructed,          \* whether this call reconstructed the swapchain
  \* the GPU timeline
  gpu_queue,              \* submissions not yet executed, in submission order
  \* history
  frame_no,               \* number of completed render calls
  nextUid,                \* number of Arc allocations so far
  calls,                  \* number of set_canvas / draw calls of the application so far
  faults,                 \* number of frames with a zero extent or an abnormal acquire so far
  recorded,               \* per image: destination of the last barrier in a submitted buffer
  freed_in,               \* per uid: the frame whose drain consumed its Free
  destroyed_in,           \* per uid: the frame whose destroy_queue.clear dropped it
  fence_waited            \* frames whose fence has been waited on and found signaled

ctxVars == <<resources, resource_update_queue, draw_cmd_queue, current_pipeline,
             current_material_ids, next_id, window_size>>
backendVars == <<tables, destroy_queue, even_frame, frame_resources, surface>>
localVars == <<swapchain_draw_data, acquire_result, desc_sets, cmd, presented,
               present_result, reconstructed>>
historyVars == <<frame_no, nextUid, calls, faults, recorded, freed_in, destroyed_in, fence_waited>>
\* the state of GfxCtx, the backend and one session of the main loop
gfxVars == <<ctxVars, backendVars, localVars, pc, gpu_queue, historyVars>>

\* One VKBuffer taken alone (buffer.rs), for the contracts of its methods.
VARIABLES
  vk_buffer,        \* the VKBuffer: size, the id of its allocation, and how
                    \* many times that allocation is currently mapped
  buffer_prev,      \* the VKBuffer as it was before the last call
  buffer_op,        \* the last call: op, its argument n, whether it panicked
  allocations,      \* how many allocations VKBuffer::new has made
  dropped,          \* the ids of the allocations whose VKBuffer was dropped
  buffer_calls      \* how many calls were made

bufferVars == <<vk_buffer, buffer_prev, buffer_op, allocations, dropped, buffer_calls>>

\* One frame of GfxCtx taken alone (gfx/mod.rs, draw.rs) and the replay of
\* its draw log (render.rs, steps 5 and 6), with the draw calls in full.
VARIABLES
  frame_data,       \* GfxFrameData: draw_cmd_queue, the lengths of vertices and
                    \* indices, current_material_ids, current_pipeline, next_id
  shader_slots,     \* the number of materials of the application's shader
  last_draw,        \* the last ShaderCfg::draw: its arguments, frame_data
                    \* before it, and the entries it appended
  replayed,         \* the log render replayed and the binds and draws it recorded
  draw_calls,       \* how many GfxCtx calls the frame made
  shader_push,      \* size_of the Push type of the application's shader
  registered,       \* whether register_shader has returned the Shader handle
  draw_fatal        \* the call that panicked: "none", "register_shader" or "draw"

drawVars == <<frame_data, shader_slots, last_draw, replayed, draw_calls,
              shader_push, registered, draw_fatal>>

\* Step 1 of one render call taken alone (render.rs), with updates of every
\* category in the queue.
VARIABLES
  updates,          \* frame_data.resource_update_queue of the frame
  drained,          \* the queue the render call drained and the recording
                    \* after its step 1
  staging           \* the byte lengths of the payloads of the updates, and
                    \* the staging buffer the render call lays out for them

drainVars == <<updates, drained, staging>>

\* The definition of one attribute type taken alone: a struct that derives
\* VertexTy or UniformTy (derive/src/lib.rs), or a pixel type of a texture
\* (attribute.rs), and the wire formats the backend chooses for it.
VARIABLES
  type_def,         \* the type: what it derives and the types of its fields
  vec4_align,       \* align_of::<Vec4>() in this build of glam
  layout,           \* StructLayout the derived layout() returns, or rejected
  formats           \* the vk::Format chosen for each attribute of the type

layoutVars == <<type_def, vec4_align, layout, formats>>

\* One VKImage taken alone (image.rs), for the barriers it hands out.
VARIABLES
  vk_image,         \* the (layout, access_mask) the VKImage stores
  image_calls       \* the change_layout_mem_barrier calls made on it: the
                    \* arguments, what it stored before, the barrier returned,
                    \* what it stored after

imageVars == <<vk_image, image_calls>>

\* The scratch buffers of the two frame resource sets taken alone (render.rs,
\* frame_resources.rs), over render calls that write any amount of data.
VARIABLES
  scratch_sets,     \* the two FrameResources: the fence resources_usable, the
                    \* four VKBuffers, the buffers its last submission named
  scratch_even,     \* even_frame
  scratch_pc,       \* position of render: "wait" or "record"
  scratch_gpu,      \* submissions not yet executed: the set and the buffers
                    \* its commands name
  scratch_frame,    \* the last render call: the buffers expand_to_fit dropped
                    \* in it and the buffers its commands name
  scratch_calls     \* number of completed render calls

scratchVars == <<scratch_sets, scratch_even, scratch_pc, scratch_gpu, scratch_frame,
                 scratch_calls>>

\* the parts modelled alone that were added last
tailUnitVars == <<imageVars, scratchVars>>

\* the parts modelled alone that come after the frame of draws
lateUnitVars == <<drainVars, layoutVars, tailUnitVars>>

\* the state of the parts that are modelled alone
unitVars == <<bufferVars, drawVars, lateUnitVars>>

vars == <<gfxVars, unitVars>>

\* ------------------------------------------------------------------ util.rs

\* IDVec::insert: the id the next insert returns
IDVec_insert_id(inner) ==
  IF Len(inner.free) > 0 THEN inner.free[Len(inner.free)] ELSE Len(inner.vec)

\* an insert that reuses a free id and leaves it on the free list
IDVec_insert_NoPop(inner, v) ==
  IF Len(inner.free) > 0
  THEN [vec |-> [inner.vec EXCEPT ![inner.free[Len(inner.free)] + 1] = v],
        free |-> inner.free]
  ELSE [vec |-> Append(inner.vec, v), free |-> inner.free]

\* IDVec::insert: the container after inserting v
IDVec_insert(inner, v) ==
  IF Len(inner.free) > 0
  THEN [vec |-> [inner.vec EXCEPT ![inner.free[Len(inner.free)] + 1] = v],
        free |-> SubSeq(inner.free, 1, Len(inner.free) - 1)]
  ELSE [vec |-> Append(inner.vec, v), free |-> inner.free]

\* a remove_unused that reports a dead slot and leaves it in place
RECURSIVE remove_unused_from_KeepsSlot(_, _, _)
remove_unused_from_KeepsSlot(inner, i, removed) ==
  IF i >= Len(inner.vec) THEN [inner |-> inner, removed |-> removed]
  ELSE IF IsSome(inner.vec[i + 1]) /\ inner.vec[i + 1].strong = 0
       THEN remove_unused_from_KeepsSlot(
              [vec |-> inner.vec, free |-> Append(inner.free, i)], i + 1, Append(removed, i))
       ELSE remove_unused_from_KeepsSlot(inner, i + 1, removed)

\* a remove_unused that clears and reports a dead slot and never marks its
\* id free
RECURSIVE remove_unused_from_Unlisted(_, _, _)
remove_unused_from_Unlisted(inner, i, removed) ==
  IF i >= Len(inner.vec) THEN [inner |-> inner, removed |-> removed]
  ELSE IF IsSome(inner.vec[i + 1]) /\ inner.vec[i + 1].strong = 0
       THEN remove_unused_from_Unlisted(
              [vec |-> [inner.vec EXCEPT ![i + 1] = NoSlot], free |-> inner.free],
              i + 1, Append(removed, i))
       ELSE remove_unused_from_Unlisted(inner, i + 1, removed)

\* the loop of IDArenaCell::remove_unused from index i on
RECURSIVE remove_unused_from(_, _, _)
remove_unused_from(inner, i, removed) ==
  IF i >= Len(inner.vec) THEN [inner |-> inner, removed |-> removed]
  ELSE IF IsSome(inner.vec[i + 1]) /\ inner.vec[i + 1].strong = 0
       THEN remove_unused_from(
              [vec |-> [inner.vec EXCEPT ![i + 1] = NoSlot], free |-> Append(inner.free, i)],
              i + 1, Append(removed, i))
       ELSE remove_unused_from(inner, i + 1, removed)

\* IDArenaCell::remove_unused
remove_unused(inner) == remove_unused_from(inner, 0, <<>>)

\* SparseVec::insert
SparseVec_insert(vec, index, v) ==
  LET padded == vec \o [i \in 1..(index + 1 - Len(vec)) |-> NoObj]
  IN [padded EXCEPT ![index + 1] = v]

\* SparseVec::get: NoObj is None
SparseVec_get(vec, index) ==
  IF index >= 0 /\ index < Len(vec) THEN vec[index + 1] ELSE NoObj

\* SparseVec::remove (the caller unwraps the removed value)
SparseVec_remove(vec, index) == [vec EXCEPT ![index + 1] = NoObj]

\* ------------------------------------------------------------------ construction

\* uids of the resources Console::new registers
ConsoleTextureUid == 0
ConsoleSamplerUid == 1
ConsoleShaderUid == 2
ConsoleResources == 3

\* the updates Console::new has queued when the application's load_fn starts
ConsoleUpdates ==
  <<UpdCreate("Texture2D", 0, ConsoleTextureUid, 0),
    UpdCreate("Sampler", 0, ConsoleSamplerUid, 0),
    UpdCreate("Shader", 0, ConsoleShaderUid, 1)>>

\* EngineCtx::new: GfxCtx::new, then Console::new registers the font texture,
\* the font sampler and the console shader; VulkanGfxBackend::load
GfxInit ==
  /\ resources = [c \in CategorySet |->
       CASE c = "Texture2D" -> [vec |-> <<Slot(ConsoleTextureUid, 0)>>, free |-> <<>>]
         [] c = "Sampler" -> [vec |-> <<Slot(ConsoleSamplerUid, 0)>>, free |-> <<>>]
         [] c = "Shader" -> [vec |-> <<Slot(ConsoleShaderUid, 1)>>, free |-> <<>>]
         [] OTHER -> [vec |-> <<>>, free |-> <<>>]]
  /\ resource_update_queue = ConsoleUpdates
  /\ draw_cmd_queue = <<>>
  /\ current_pipeline = 0
  /\ current_material_ids = [i \in 1..MAX_MATERIALS |-> 0]
  /\ next_id = 0
  /\ window_size = 1
  /\ tables = [c \in CategorySet |-> <<>>]
  /\ destroy_queue = <<>>
  /\ even_frame = FALSE
  /\ frame_resources = [s \in {0, 1} |->
       [resources_usable |-> TRUE, framebuffer_ready |-> 0, render_finished |-> 0,
        last_submit |-> -1]]
  /\ surface = [swapchain_is_bad |-> FALSE,
                color_images |-> [i \in 1..SwapImages |-> NewImage],
                depth_image |-> NewImage]
  /\ pc = "start_update"
  /\ swapchain_draw_data = -1
  /\ acquire_result = "none"
  /\ desc_sets = <<>>
  /\ cmd = <<>>
  /\ presented = FALSE
  /\ present_result = "none"
  /\ reconstructed = FALSE
  /\ gpu_queue = <<>>
  /\ frame_no = 0
  /\ nextUid = ConsoleResources
  /\ calls = 0
  /\ faults = 0
  /\ recorded = <<>>
  /\ freed_in = <<>>
  /\ destroyed_in = <<>>
  /\ fence_waited = {}

\* the VKBuffer that is modelled alone, before it is looked at
BufferIdle ==
  /\ vk_buffer = [size |-> 0, allocation |-> 0, mapped |-> 0]
  /\ buffer_prev = [size |-> 0, allocation |-> 0, mapped |-> 0]
  /\ buffer_op = [op |-> "none", n |-> 0, panicked |-> FALSE]
  /\ allocations = 1
  /\ dropped = {}
  /\ buffer_calls = 0

\* GfxFrameData::default()
GfxFrameData_default ==
  [draw_cmd_queue |-> <<>>, vertices |-> 0, indices |-> 0,
   current_material_ids |-> [i \in 1..MAX_MATERIALS |-> 0],
   current_pipeline |-> 0, next_id |-> 0]

\* no ShaderCfg::draw yet
NoDraw ==
  [called |-> FALSE, mesh |-> <<>>, instances |-> <<>>, materials |-> <<>>,
   before |-> GfxFrameData_default, appended |-> <<>>]

\* no replay yet
NoReplay == [done |-> FALSE, log |-> <<>>, fatal |-> FALSE, cmd |-> <<>>]

\* the GfxCtx that is modelled alone, before it is looked at
DrawIdle ==
  /\ frame_data = GfxFrameData_default
  /\ shader_slots = 0
  /\ last_draw = NoDraw
  /\ replayed = NoReplay
  /\ draw_calls = 0
  /\ shader_push = 0
  /\ registered = FALSE
  /\ draw_fatal = "none"

\* no render call yet
NoDrain ==
  [done |-> FALSE, queue |-> <<>>, staging_buffer_copies |-> <<>>,
   tables |-> [c \in CategorySet |-> <<>>], fatal |-> FALSE]

\* render.rs: the alignment of a payload in the staging buffer
STAGING_BUFFER_ALIGN == 64

\* FrameResources::new: the bytes of a staging buffer as constructed
StagingBytes == 4194304

\* no staging buffer laid out yet: the payloads of the updates of Console::new
\* are the font atlas of the given length and nothing for the sampler and the
\* shader
NoStaging(atlas) ==
  [payloads |-> <<<<atlas>>, <<>>, <<>>>>,
   staging_buffer_size |-> 0, staging_buffer_copies |-> <<>>,
   capacity |-> StagingBytes]

\* the update queue that is modelled alone, before it is looked at
DrainIdle ==
  /\ updates = ConsoleUpdates
  /\ drained = NoDrain
  /\ staging = NoStaging(STAGING_BUFFER_ALIGN)

\* no layout() call yet
NoLayout == [defined |-> FALSE, rejected |-> FALSE, attributes |-> <<>>, size |-> 0]

\* no pipeline or texture built yet
NoFormats == [built |-> FALSE, list |-> <<>>]

\* the type that is modelled alone, before it is looked at
LayoutIdle ==
  /\ type_def = [derive |-> "none", fields |-> <<>>]
  /\ vec4_align = 16
  /\ layout = NoLayout
  /\ formats = NoFormats

\* the VKImage that is modelled alone, before it is looked at
ImageIdle ==
  /\ vk_image = NewImage
  /\ image_calls = <<>>

\* VKBuffer::new: a buffer of the given size on a fresh allocation, unmapped
VKBuffer_new(size, id) == [size |-> size, allocation |-> id, mapped |-> 0]

\* the allocation of a scratch buffer: the set, the field, and how many times
\* the field was replaced
ScratchAllocation(set, field, n) == <<set, field, n>>

\* FrameResources::new, twice: the fence is created signaled; the staging and
\* the vertex buffer have twice the size of the index and the uniform buffer
\* (sizes in units of 2 MiB)
FrameResources_new(set) ==
  [resources_usable |-> TRUE,
   staging_buffer |-> VKBuffer_new(2, ScratchAllocation(set, "staging_buffer", 0)),
   vertex_buffer |-> VKBuffer_new(2, ScratchAllocation(set, "vertex_buffer", 0)),
   index_buffer |-> VKBuffer_new(1, ScratchAllocation(set, "index_buffer", 0)),
   uniform_buffer |-> VKBuffer_new(1, ScratchAllocation(set, "uniform_buffer", 0)),
   last_refs |-> {}]

\* no render call yet
NoScratchFrame == [dropped |-> <<>>, refs |-> {}, set |-> -1]

\* the frame resource sets that are modelled alone, before they are looked at
ScratchIdle ==
  /\ scratch_sets = [s \in {0, 1} |-> FrameResources_new(s)]
  /\ scratch_even = FALSE
  /\ scratch_pc = "wait"
  /\ scratch_gpu = <<>>
  /\ scratch_frame = NoScratchFrame
  /\ scratch_calls = 0

TailIdle == ImageIdle /\ ScratchIdle

LateIdle == DrainIdle /\ LayoutIdle /\ TailIdle

Init == GfxInit /\ BufferIdle /\ DrawIdle /\ LateIdle


\* ------------------------------------------------------------------ GfxSys::start_update

\* a scan that removes the unused resources and queues no Free for them
RECURSIVE start_update_scan_NoFree(_, _, _)
start_update_scan_NoFree(res, queue, k) ==
  IF k > Len(Categories) THEN [resources |-> res, queue |-> queue]
  ELSE start_update_scan_NoFree(
         [res EXCEPT ![Categories[k]] = remove_unused(res[Categories[k]]).inner],
         queue, k + 1)

\* the seven remove_unused loops of start_update, from category k on
RECURSIVE start_update_scan(_, _, _)
start_update_scan(res, queue, k) ==
  IF k > Len(Categories) THEN [resources |-> res, queue |-> queue]
  ELSE LET c == Categories[k]
           r == remove_unused(res[c])
       IN start_update_scan(
            [res EXCEPT ![c] = r.inner],
            queue \o [i \in 1..Len(r.removed) |-> UpdFree(c, r.removed[i])],
            k + 1)

\* GfxSys::start_update(c, reset_frame_data): run calls it with false before
\* load_fn and with true at the top of every loop iteration; size is what the
\* window reports
StartUpdate(size) ==
  /\ UNCHANGED unitVars
  /\ pc = "start_update"
  /\ frame_no < MaxFrames
  /\ size = 0 => faults < MaxFaults
  /\ faults' = IF size = 0 THEN faults + 1 ELSE faults
  /\ LET reset_frame_data == frame_no > 0
         queue0 == IF reset_frame_data THEN <<>> ELSE resource_update_queue
         scan == start_update_scan(resources, queue0, 1)
     IN /\ window_size' = size
        /\ resources' = scan.resources
        /\ resource_update_queue' = scan.queue
        /\ draw_cmd_queue' = IF reset_frame_data THEN <<>> ELSE draw_cmd_queue
        /\ next_id' = IF reset_frame_data THEN 0 ELSE next_id
        /\ current_material_ids' =
             IF reset_frame_data THEN [i \in 1..MAX_MATERIALS |-> ID_NONE]
             ELSE current_material_ids
        /\ current_pipeline' = IF reset_frame_data THEN ID_NONE ELSE current_pipeline
  /\ pc' = "update"
  /\ present_result' = "none"
  /\ UNCHANGED <<backendVars, swapchain_draw_data, acquire_result, desc_sets, cmd, presented,
                 reconstructed, gpu_queue,
                 frame_no, nextUid, calls, recorded, freed_in, destroyed_in, fence_waited>>

\* ------------------------------------------------------------------ GfxCtx (the application's calls)

\* GfxCtx::register_*: Arc::new, IDArenaCell::insert, push the Create update.
\* def is the number of material slots of a shader, 0 for the others
Register(cat, def) ==
  /\ UNCHANGED unitVars
  /\ pc = "update"
  /\ nextUid < ConsoleResources + MaxResources
  /\ cat = "Shader" => frame_no = 0 /\ Len(resources["Shader"].vec) < 1 + MaxShaders
  /\ LET id == IDVec_insert_id(resources[cat])
     IN /\ resources' = [resources EXCEPT
                           ![cat] = IDVec_insert(@, Slot(nextUid, def))]
        /\ resource_update_queue' =
             Append(resource_update_queue, UpdCreate(cat, id, nextUid, def))
  /\ nextUid' = nextUid + 1
  /\ UNCHANGED <<draw_cmd_queue, current_pipeline, current_material_ids, next_id, window_size,
                 backendVars, localVars, pc, gpu_queue,
                 frame_no, calls, faults, recorded, freed_in, destroyed_in, fence_waited>>

\* the handles of the application: the console keeps its own for the session
UserHandle(cat, id) ==
  /\ id < Len(resources[cat].vec)
  /\ resources[cat].vec[id + 1].uid >= ConsoleResources
  /\ resources[cat].vec[id + 1].strong > 0

\* drop of the last handle of a resource (Arc strong count reaches zero)
DropHandle(cat, id) ==
  /\ UNCHANGED unitVars
  /\ pc = "update"
  /\ UserHandle(cat, id)
  /\ resources' = [resources EXCEPT ![cat].vec[id + 1].strong = @ - 1]
  /\ UNCHANGED <<resource_update_queue, draw_cmd_queue, current_pipeline, current_material_ids,
                 next_id, window_size, backendVars, localVars, pc, gpu_queue, historyVars>>

\* GfxCtx::set_canvas
set_canvas(queue, canvas, clear) == Append(queue, DcSetCanvas(canvas, clear))

\* the canvases the application can name: the screen and its framebuffers
UserCanvases ==
  {CanvasScreen} \cup {id \in 0..(Len(resources["Framebuffer"].vec) - 1) : UserHandle("Framebuffer", id)}

SetCanvas(canvas, clear) ==
  /\ UNCHANGED unitVars
  /\ pc = "update"
  /\ calls < MaxLog
  /\ canvas \in UserCanvases
  /\ draw_cmd_queue' = set_canvas(draw_cmd_queue, canvas, clear)
  /\ current_pipeline' = ID_NONE
  /\ calls' = calls + 1
  /\ UNCHANGED <<resources, resource_update_queue, current_material_ids, next_id, window_size,
                 backendVars, localVars, pc, gpu_queue,
                 frame_no, nextUid, faults, recorded, freed_in, destroyed_in, fence_waited>>

\* the material loop of ShaderCfg::draw from slot k on (slots count from 0);
\* materials is the sequence of MaterialInner [id, attributes]
\* a material loop that pushes a SetMaterial for every slot
RECURSIVE draw_materials_NoDedup(_, _, _, _)
draw_materials_NoDedup(queue, ids, materials, k) ==
  IF k >= Len(materials) THEN [queue |-> queue, ids |-> ids]
  ELSE draw_materials_NoDedup(Append(queue, DcSetMaterial(materials[k + 1].attributes, k)),
                              [ids EXCEPT ![k + 1] = materials[k + 1].id], materials, k + 1)

RECURSIVE draw_materials(_, _, _, _)
draw_materials(queue, ids, materials, k) ==
  IF k >= Len(materials) THEN [queue |-> queue, ids |-> ids]
  ELSE IF ids[k + 1] # materials[k + 1].id
       THEN draw_materials(Append(queue, DcSetMaterial(materials[k + 1].attributes, k)),
                           [ids EXCEPT ![k + 1] = materials[k + 1].id], materials, k + 1)
       ELSE draw_materials(queue, ids, materials, k + 1)

\* ShaderCfg::draw: [queue, pipeline, ids] after the call
\* (desc is the DrawCmd::DrawMesh entry it builds from mesh and instances,
\* push is size_of::<Push>(); the panic comes after the shader and the
\* materials were pushed)
ShaderCfg_draw(queue, pipeline, ids, shader, materials, desc, push) ==
  LET q1 == IF pipeline # shader THEN Append(queue, DcSetShader(shader)) ELSE queue
      m == draw_materials(q1, ids, materials, 0)
  IN [queue |-> IF push > MAX_PUSH THEN m.queue ELSE Append(m.queue, desc),
      pipeline |-> shader, ids |-> m.ids, panicked |-> push > MAX_PUSH]

\* what the application can bind as the texture of a material: the color
\* image of one of its framebuffers
UserTextures ==
  {AttrRef("FramebufferColor", id) : id \in UserCanvases \ {CanvasScreen}}

\* the meshes the application can draw: an immediate mesh (-1) or a registered one
UserMeshes ==
  {-1} \cup {id \in 0..(Len(resources["Mesh"].vec) - 1) : UserHandle("Mesh", id)}

\* the number of material slots of a shader handle (its Materials type)
ShaderSlots(id) == resources["Shader"].vec[id + 1].def

\* GfxCtx::material_cfg for each slot of the shader, GfxCtx::shader_cfg and
\* ShaderCfg::draw
Draw(shader, tex, mesh) ==
  /\ UNCHANGED unitVars
  /\ pc = "update"
  /\ calls < MaxLog
  /\ shader < Len(resources["Shader"].vec) /\ UserHandle("Shader", shader)
  /\ mesh \in UserMeshes
  /\ LET slots == ShaderSlots(shader)
         materials == [k \in 1..slots |-> [id |-> next_id + k - 1, attributes |-> <<tex>>]]
         d == ShaderCfg_draw(draw_cmd_queue, current_pipeline, current_material_ids,
                             shader, materials, DcDrawMesh(mesh), 0)
     IN /\ slots > 0 => tex \in UserTextures
        /\ slots = 0 => tex = AttrRef("none", -1)
        /\ next_id' = next_id + slots
        /\ draw_cmd_queue' = d.queue
        /\ current_pipeline' = d.pipeline
        /\ current_material_ids' = d.ids
  /\ calls' = calls + 1
  /\ UNCHANGED <<resources, resource_update_queue, window_size,
                 backendVars, localVars, pc, gpu_queue,
                 frame_no, nextUid, faults, recorded, freed_in, destroyed_in, fence_waited>>

\* the end of load_fn in the first frame; Console::update at the end of every
\* later update: set_canvas(ScreenCanvas, None), an immediate mesh, and a draw
\* with the console shader and the font material
EndUpdate ==
  /\ UNCHANGED unitVars
  /\ pc = "update"
  /\ IF frame_no = 0
     THEN UNCHANGED <<draw_cmd_queue, current_pipeline, current_material_ids, next_id>>
     ELSE LET q == set_canvas(draw_cmd_queue, CanvasScreen, FALSE)
              font == [id |-> next_id,
                       attributes |-> <<AttrRef("Texture2D", 0), AttrRef("Sampler", 0)>>]
              d == ShaderCfg_draw(q, ID_NONE, current_material_ids, 0, <<font>>, DcDrawMesh(-1), 0)
          IN /\ next_id' = next_id + 1
             /\ draw_cmd_queue' = d.queue
             /\ current_pipeline' = d.pipeline
             /\ current_material_ids' = d.ids
  /\ pc' = "wait"
  /\ UNCHANGED <<resources, resource_update_queue, window_size,
                 backendVars, localVars, gpu_queue, historyVars>>

\* ------------------------------------------------------------------ VulkanGfxBackend::render, step 0

\* a render call that always selects frame_resources.0
cfr_First == IF even_frame THEN 0 ELSE 0

\* the frame resource set render selects: frame_resources.0 on even frames
cfr == IF even_frame THEN 0 ELSE 1

\* a wait that returns at once, whatever the state of the fence
FenceWaitReturns_NoWait(set) == TRUE

\* wait_for_fences(cfr.resources_usable, u64::MAX) returns
FenceWaitReturns(set) == frame_resources[set].resources_usable

\* a render call that leaves the fence signaled
reset_fences_Skipped(fr, set) == fr

\* reset_fences(cfr.resources_usable)
reset_fences(fr, set) == [fr EXCEPT ![set].resources_usable = FALSE]

\* the history after dropping (destroying) the GPU objects objs in this frame
Destroyed(history, objs) ==
  [u \in (DOMAIN history) \cup {objs[i].uid : i \in 1..Len(objs)} |->
     IF u \in DOMAIN history THEN history[u] ELSE frame_no]

\* wait_for_fences, reset_fences, self.destroy_queue.clear()
RenderWait ==
  /\ UNCHANGED unitVars
  /\ pc = "wait"
  /\ FenceWaitReturns(cfr)
  /\ fence_waited' =
       IF frame_resources[cfr].resources_usable /\ frame_resources[cfr].last_submit >= 0
       THEN fence_waited \cup {frame_resources[cfr].last_submit}
       ELSE fence_waited
  /\ frame_resources' = reset_fences(frame_resources, cfr)
  /\ destroyed_in' = Destroyed(destroyed_in, destroy_queue)
  /\ destroy_queue' = <<>>
  /\ pc' = "record"
  /\ UNCHANGED <<ctxVars, tables, even_frame, surface, localVars, gpu_queue,
                 frame_no, nextUid, calls, faults, recorded, freed_in>>

\* ------------------------------------------------------------------ image.rs

\* VKImage::change_layout_mem_barrier: the barrier it returns; the image
\* stores new afterwards
change_layout_mem_barrier(image, stored, new) == [image |-> image, old |-> stored, new |-> new]

\* ------------------------------------------------------------------ render, step 1

\* enum FramebufferFormat in the order of FramebufferFormat::iter(); the def
\* of a framebuffer is the position of its format in it, from 0
FramebufferFormats == <<"Rgba8Srgb">>

framebuffer_format_to_pipeline_format(format) ==
  CASE format = "Rgba8Srgb" -> "R8G8B8A8_SRGB"

\* self.surface.format.format, the format the swapchain was created with
SurfaceFormat == "B8G8R8A8_SRGB"

\* VKGfxPipeline::new: one pipeline per framebuffer format, then the one for
\* the surface format
Variants ==
  [i \in 1..Len(FramebufferFormats) |->
     framebuffer_format_to_pipeline_format(FramebufferFormats[i])] \o <<SurfaceFormat>>

\* VKImage::N_TEXTURE_FORMATS: the number of framebuffer formats, which is
\* the index of the variant built for the surface format
N_TEXTURE_FORMATS == Len(FramebufferFormats)

\* VKImage::texture_format_to_index: the position of the format in the enum
texture_format_to_index(format) ==
  CHOOSE i \in 0..(N_TEXTURE_FORMATS - 1) : FramebufferFormats[i + 1] = format

\* the state of one render call while it records: the backend fields it
\* changes, the local queues of the call, and the locals of the replay loop
Recording ==
  [tables |-> tables, destroy_queue |-> destroy_queue, surface |-> surface,
   reconstructed |-> FALSE, acquired |-> FALSE,
   swapchain_draw_data |-> -1, acquire_result |-> "none",
   transfer_dst_layout_barriers |-> <<>>, shader_read_layout_barriers |-> <<>>,
   depth_attachment_layout_barriers |-> <<>>,
   color_image_clears |-> <<>>, depth_image_clears |-> <<>>,
   staging_buffer_copies |-> <<>>,
   desc_sets |-> <<>>, cmd |-> <<>>,
   current_target |-> -2, current_target_format_i |-> N_TEXTURE_FORMATS,
   current_pipeline |-> ID_NONE, desc_sets_iter |-> 0,
   bound |-> [k \in 1..MAX_MATERIALS |-> 0],
   freed |-> <<>>, dropped |-> <<>>, drain_fatal |-> FALSE, fatal |-> FALSE]

\* table.insert(id, obj): an object still in the slot is overwritten and
\* dropped on the spot
DrainInsert(f, ty, id, obj) ==
  LET old == SparseVec_get(f.tables[ty], id)
  IN [f EXCEPT !.tables[ty] = SparseVec_insert(@, id, obj),
               !.dropped = IF old.uid # -1 THEN Append(@, old) ELSE @]

\* a Free that drops the removed object on the spot
DrainFree_Immediate(f, ty, id) ==
  LET old == SparseVec_get(f.tables[ty], id)
  IN IF old.uid = -1
     THEN [f EXCEPT !.fatal = TRUE]
     ELSE [f EXCEPT !.tables[ty] = SparseVec_remove(@, id),
                    !.dropped = Append(@, old),
                    !.freed = Append(@, old.uid)]

\* ResourceUpdate::Free: self.destroy_queue.push(table.remove(id).unwrap())
DrainFree(f, ty, id) ==
  LET old == SparseVec_get(f.tables[ty], id)
  IN IF old.uid = -1
     THEN [f EXCEPT !.fatal = TRUE]
     ELSE [f EXCEPT !.tables[ty] = SparseVec_remove(@, id),
                    !.destroy_queue = Append(@, old),
                    !.freed = Append(@, old.uid)]

\* one arm of the match on resource_update
drain_one(f, u) ==
  CASE u.op = "Create" /\ u.ty = "Texture2D" ->
         LET image == ImgTexture(u.uid)
             b1 == change_layout_mem_barrier(image, NewImage, TransferDst)
             b2 == change_layout_mem_barrier(image, TransferDst, ShaderRead)
             texture == [Obj(u.uid, u.def) EXCEPT !.color = ShaderRead]
             f1 == [f EXCEPT !.transfer_dst_layout_barriers = Append(@, b1),
                             !.shader_read_layout_barriers = Append(@, b2),
                             !.staging_buffer_copies =
                                Append(@, Cmd("copy_buffer_to_image", image,
                                              TransferDst, u.uid, -1))]
         IN DrainInsert(f1, u.ty, u.id, texture)
    [] u.op = "Create" /\ u.ty \in {"Mesh", "Instances"} ->
         DrainInsert([f EXCEPT !.staging_buffer_copies =
                                 Append(@, Cmd("copy_buffer", NoImg, NewImage, u.uid, -1))
                                 \o IF u.ty = "Mesh" /\ u.def = 1
                                    THEN <<Cmd("copy_buffer", MeshIndices(u.uid), NewImage,
                                               u.uid, -1)>>
                                    ELSE <<>>],
                     u.ty, u.id, Obj(u.uid, u.def))
    [] u.op = "Create" /\ u.ty \in {"Shader", "Sampler", "Uniform"} ->
         DrainInsert(f, u.ty, u.id, Obj(u.uid, u.def))
    [] u.op = "Create" /\ u.ty = "Framebuffer" ->
         LET color == ImgFbColor(u.uid)
             depth == ImgFbDepth(u.uid)
             c1 == change_layout_mem_barrier(color, NewImage, TransferDst)
             c2 == change_layout_mem_barrier(color, TransferDst, ShaderRead)
             d1 == change_layout_mem_barrier(depth, NewImage, TransferDst)
             d2 == change_layout_mem_barrier(depth, TransferDst, DepthAttachment)
             framebuffer == [Obj(u.uid, u.def) EXCEPT !.color = ShaderRead, !.depth = DepthAttachment]
             f1 == [f EXCEPT !.transfer_dst_layout_barriers = @ \o <<c1, d1>>,
                             !.shader_read_layout_barriers = Append(@, c2),
                             !.depth_attachment_layout_barriers = Append(@, d2),
                             !.color_image_clears =
                                Append(@, Cmd("clear_color_image", color, TransferDst, u.uid, -1)),
                             !.depth_image_clears =
                                Append(@, Cmd("clear_depth_stencil_image", depth,
                                              TransferDst, u.uid, -1))]
         IN DrainInsert(f1, u.ty, u.id, framebuffer)
    [] u.op = "Free" -> DrainFree(f, u.ty, u.id)

\* step 1: the for loop over resource_update_queue.drain(..); a failed
\* unwrap ends the call
RECURSIVE drain(_, _)
drain(f, queue) ==
  IF queue = <<>> \/ f.fatal THEN [f EXCEPT !.drain_fatal = f.fatal]
  ELSE drain(drain_one(f, Head(queue)), Tail(queue))

\* ------------------------------------------------------------------ surface.rs

\* VKSurface::reconstruct_swapchain: device_wait_idle, then a new swapchain
\* with new images; swapchain_is_bad is left as it is
reconstruct_swapchain(sf) ==
  [sf EXCEPT !.color_images = [i \in 1..SwapImages |-> NewImage],
             !.depth_image = NewImage]

\* device_wait_idle returns
DeviceIdle == gpu_queue = <<>>

\* ------------------------------------------------------------------ render, step 2

\* what acquire_next_image can return
AcquireOutcomes == {"ok", "suboptimal", "out_of_date", "error"}

\* a step 2 that is taken to reconstruct nothing
NeedsReconstruct_Never == FALSE

\* whether step 2 calls reconstruct_swapchain
NeedsReconstruct == window_size > 0 /\ surface.swapchain_is_bad

\* an Ok arm that never marks the surface dirty
acquire_ok_IgnoresSuboptimal(f, image_index, suboptimal) ==
  LET color_image == ImgSwapColor(image_index)
      c1 == change_layout_mem_barrier(color_image, f.surface.color_images[image_index + 1],
                                      TransferDst)
      d1 == change_layout_mem_barrier(ImgSwapDepth, f.surface.depth_image, TransferDst)
      d2 == change_layout_mem_barrier(ImgSwapDepth, TransferDst, DepthAttachment)
  IN [f EXCEPT
        !.surface.color_images[image_index + 1] = TransferDst,
        !.surface.depth_image = DepthAttachment,
        !.transfer_dst_layout_barriers = @ \o <<c1, d1>>,
        !.depth_attachment_layout_barriers = Append(@, d2),
        !.color_image_clears =
           Append(@, Cmd("clear_color_image", color_image, TransferDst, -1, -1)),
        !.depth_image_clears =
           Append(@, Cmd("clear_depth_stencil_image", ImgSwapDepth, TransferDst, -1, -1)),
        !.swapchain_draw_data = image_index,
        !.acquired = TRUE]

\* the arm of the match for Ok((image_index, suboptimal))
acquire_ok(f, image_index, suboptimal) ==
  LET color_image == ImgSwapColor(image_index)
      c1 == change_layout_mem_barrier(color_image, f.surface.color_images[image_index + 1],
                                      TransferDst)
      d1 == change_layout_mem_barrier(ImgSwapDepth, f.surface.depth_image, TransferDst)
      d2 == change_layout_mem_barrier(ImgSwapDepth, TransferDst, DepthAttachment)
  IN [f EXCEPT
        !.surface.swapchain_is_bad = IF suboptimal THEN TRUE ELSE @,
        !.surface.color_images[image_index + 1] = TransferDst,
        !.surface.depth_image = DepthAttachment,
        !.transfer_dst_layout_barriers = @ \o <<c1, d1>>,
        !.depth_attachment_layout_barriers = Append(@, d2),
        !.color_image_clears =
           Append(@, Cmd("clear_color_image", color_image, TransferDst, -1, -1)),
        !.depth_image_clears =
           Append(@, Cmd("clear_depth_stencil_image", ImgSwapDepth, TransferDst, -1, -1)),
        !.swapchain_draw_data = image_index,
        !.acquired = TRUE]

\* a step 2 that treats every acquire error as fatal
acquire_OutOfDateFatal(f, outcome, image_index) ==
  IF f.fatal \/ window_size = 0 THEN f
  ELSE LET f1 == IF f.surface.swapchain_is_bad
                 THEN [f EXCEPT !.surface = reconstruct_swapchain(@), !.reconstructed = TRUE]
                 ELSE f
           f2 == [f1 EXCEPT !.acquire_result = outcome]
       IN CASE outcome = "ok" -> acquire_ok(f2, image_index, FALSE)
            [] outcome = "suboptimal" -> acquire_ok(f2, image_index, TRUE)
            [] OTHER -> [f2 EXCEPT !.fatal = TRUE]

\* step 2: nothing for a zero extent; otherwise reconstruct a bad swapchain
\* and acquire
acquire(f, outcome, image_index) ==
  IF f.fatal \/ window_size = 0 THEN f
  ELSE LET f1 == IF f.surface.swapchain_is_bad
                 THEN [f EXCEPT !.surface = reconstruct_swapchain(@), !.reconstructed = TRUE]
                 ELSE f
           f2 == [f1 EXCEPT !.acquire_result = outcome]
       IN CASE outcome = "ok" -> acquire_ok(f2, image_index, FALSE)
            [] outcome = "suboptimal" -> acquire_ok(f2, image_index, TRUE)
            [] outcome = "out_of_date" -> [f2 EXCEPT !.surface.swapchain_is_bad = TRUE]
            [] OTHER -> [f2 EXCEPT !.fatal = TRUE]

\* ------------------------------------------------------------------ render, steps 3 and 4

\* the image barriers of one cmd_pipeline_barrier call, none for an empty list
RecordBarriers(barriers) == [i \in 1..Len(barriers) |-> CmdBarrier(barriers[i])]

\* step 3: the transfer barriers, the clears, the staging copies
transfer(f) ==
  IF f.fatal THEN f
  ELSE [f EXCEPT !.cmd = @ \o RecordBarriers(f.transfer_dst_layout_barriers)
                           \o f.color_image_clears \o f.depth_image_clears
                           \o f.staging_buffer_copies]

\* the barrier step 4 and the finalize step record for the acquired
\* swapchain image
swapchain_barrier(f, new) ==
  LET i == f.swapchain_draw_data
      b == change_layout_mem_barrier(ImgSwapColor(i), f.surface.color_images[i + 1], new)
  IN IF i = -1 THEN f
     ELSE [f EXCEPT !.cmd = Append(@, CmdBarrier(b)),
                    !.surface.color_images[i + 1] = new]

\* a step 4 that never records the shader read barriers
prepare_SkipsShaderRead(f) ==
  IF f.fatal THEN f
  ELSE swapchain_barrier(
         [f EXCEPT !.cmd = @ \o RecordBarriers(f.depth_attachment_layout_barriers)],
         ColorAttachment)

\* step 4: the shader read barriers, the depth barriers, and the swapchain
\* image to COLOR_ATTACHMENT when one was acquired
prepare(f) ==
  IF f.fatal THEN f
  ELSE swapchain_barrier(
         [f EXCEPT !.cmd = @ \o RecordBarriers(f.shader_read_layout_barriers)
                             \o RecordBarriers(f.depth_attachment_layout_barriers)],
         ColorAttachment)

\* ------------------------------------------------------------------ render, step 5

\* DescWriteInfo of one attribute: the image a descriptor names with the
\* layout declared for it, NoImg for samplers and buffers; uid = -2 is a
\* failed unwrap or the "not implemented" panic
desc_write(f, attr) ==
  LET t == IF attr.kind \in {"Texture2D", "Sampler", "Uniform"}
           THEN SparseVec_get(f.tables[attr.kind], attr.id)
           ELSE IF attr.kind \in {"FramebufferColor", "FramebufferDepth"}
           THEN SparseVec_get(f.tables["Framebuffer"], attr.id)
           ELSE NoObj
  IN CASE attr.kind = "ImmediateUniform" -> Cmd("sample", NoImg, NewImage, -1, -1)
       [] attr.kind = "FramebufferDepth" \/ t.uid = -1 -> Cmd("sample", NoImg, NewImage, -2, -1)
       [] attr.kind = "Texture2D" -> Cmd("sample", ImgTexture(t.uid), t.color, t.uid, -1)
       [] attr.kind = "FramebufferColor" -> Cmd("sample", ImgFbColor(t.uid), t.color, t.uid, -1)
       [] OTHER -> Cmd("sample", NoImg, NewImage, t.uid, -1)

\* the loop of step 5 over the draw log from entry k on: one descriptor set
\* per SetMaterial, in log order
RECURSIVE desc_write_info(_, _, _)
desc_write_info(f, queue, k) ==
  IF k > Len(queue) \/ f.fatal THEN f
  ELSE LET c == queue[k]
       IN CASE c.op = "SetShader" ->
                 IF SparseVec_get(f.tables["Shader"], c.id).uid = -1
                 THEN [f EXCEPT !.fatal = TRUE]
                 ELSE desc_write_info([f EXCEPT !.current_pipeline = c.id], queue, k + 1)
            [] c.op = "SetMaterial" ->
                 LET info == [i \in 1..Len(c.attributes) |-> desc_write(f, c.attributes[i])]
                 IN IF f.current_pipeline = ID_NONE
                       \/ c.slot >= SparseVec_get(f.tables["Shader"], f.current_pipeline).def
                       \/ \E i \in 1..Len(info) : info[i].uid = -2
                    THEN [f EXCEPT !.fatal = TRUE]
                    ELSE desc_write_info([f EXCEPT !.desc_sets = Append(@, info)], queue, k + 1)
            [] OTHER -> desc_write_info(f, queue, k + 1)

\* step 5: reset_descriptor_pool, allocate one set per SetMaterial, write them
descriptors(f) == desc_write_info([f EXCEPT !.current_pipeline = ID_NONE], draw_cmd_queue, 1)

\* ------------------------------------------------------------------ render, step 6 (replay)

\* current_target = None
CanvasNone == -2

\* the first pipeline of self.pipelines.iter(), ID_NONE when there is none
FirstPipeline(f) ==
  LET ids == {i \in 0..(Len(f.tables["Shader"]) - 1) : f.tables["Shader"][i + 1].uid # -1}
  IN IF ids = {} THEN ID_NONE ELSE CHOOSE i \in ids : \A j \in ids : i <= j

\* "swap framebuffer back to shader read if needed": the barrier recorded
\* for the color image of the framebuffer that is the current target
back_to_shader_read(f) ==
  IF f.current_target >= 0
  THEN LET fb == SparseVec_get(f.tables["Framebuffer"], f.current_target)
           b == change_layout_mem_barrier(ImgFbColor(fb.uid), fb.color, ShaderRead)
       IN IF fb.uid = -1 THEN [f EXCEPT !.fatal = TRUE]
          ELSE [f EXCEPT !.cmd = Append(@, CmdBarrier(b)),
                         !.tables["Framebuffer"][f.current_target + 1].color = ShaderRead]
  ELSE f

\* cmd_end_rendering when a pass is open
end_pass(f) ==
  IF f.current_target # CanvasNone
  THEN [f EXCEPT !.cmd = Append(@, Cmd("end_rendering", NoImg, NewImage, -1, -1))]
  ELSE f

\* cmd_begin_rendering with the color and the depth attachment, viewport,
\* scissor, and "mark as new target"
begin_pass(f, id, color, cstate, depth, dstate, uid, clear, at) ==
  [f EXCEPT !.cmd = @ \o <<Cmd(IF clear THEN "begin_rendering_clear" ELSE "begin_rendering_load",
                               color, cstate, uid, at),
                           Cmd("depth_attachment", depth, dstate, uid, at)>>,
            !.current_target = id,
            !.current_target_format_i =
               IF id = CanvasScreen THEN N_TEXTURE_FORMATS
               ELSE texture_format_to_index(
                      FramebufferFormats[SparseVec_get(f.tables["Framebuffer"], id).def + 1])]

\* the new target of a SetCanvas: nothing for the screen without an acquired
\* image, the barrier to COLOR_ATTACHMENT and the pass for a framebuffer
new_target(f, c, at) ==
  IF c.id = CanvasScreen
  THEN IF f.swapchain_draw_data = -1 THEN f
       ELSE begin_pass(f, c.id, ImgSwapColor(f.swapchain_draw_data),
                       f.surface.color_images[f.swapchain_draw_data + 1],
                       ImgSwapDepth, f.surface.depth_image, -1, c.clear, at)
  ELSE LET fb == SparseVec_get(f.tables["Framebuffer"], c.id)
           b == change_layout_mem_barrier(ImgFbColor(fb.uid), fb.color, ColorAttachment)
           f1 == [f EXCEPT !.cmd = Append(@, CmdBarrier(b)),
                           !.tables["Framebuffer"][c.id + 1].color = ColorAttachment]
       IN IF fb.uid = -1 THEN [f EXCEPT !.fatal = TRUE]
          ELSE begin_pass(f1, c.id, ImgFbColor(fb.uid), ColorAttachment,
                          ImgFbDepth(fb.uid), fb.depth, fb.uid, c.clear, at)

\* DrawCmd::SetCanvas
replay_set_canvas(f, c, at) ==
  IF f.current_target = c.id THEN f
  ELSE LET f1 == back_to_shader_read(end_pass(f))
       IN IF f1.fatal THEN f1 ELSE new_target(f1, c, at)

\* the images a draw reads through the descriptor sets bound to the slots of
\* the current pipeline
RECURSIVE Sampled(_, _, _)
Sampled(f, at, k) ==
  IF k > SparseVec_get(f.tables["Shader"], f.current_pipeline).def THEN <<>>
  ELSE (IF f.bound[k] = 0 THEN <<>>
        ELSE LET set == f.desc_sets[f.bound[k]]
             IN SelectSeq([i \in 1..Len(set) |-> [set[i] EXCEPT !.at = at]],
                          LAMBDA w : w.img # NoImg))
       \o Sampled(f, at, k + 1)

\* one arm of the match on draw_cmd; at is the index of the entry in the log
replay_one(f, c, at) ==
  CASE c.op = "SetCanvas" -> replay_set_canvas(f, c, at)
    [] c.op = "SetShader" ->
         IF f.current_target = CanvasNone THEN f
         ELSE LET p == SparseVec_get(f.tables["Shader"], c.id)
              IN IF p.uid = -1 THEN [f EXCEPT !.fatal = TRUE]
                 ELSE [f EXCEPT !.current_pipeline = c.id,
                                !.cmd = Append(@, [Cmd("bind_pipeline", NoImg, NewImage, p.uid, at)
                                                     EXCEPT !.variant = f.current_target_format_i])]
    [] c.op = "SetMaterial" ->
         IF f.current_target = CanvasNone THEN f
         ELSE IF f.desc_sets_iter >= Len(f.desc_sets) THEN [f EXCEPT !.fatal = TRUE]
         ELSE [f EXCEPT !.desc_sets_iter = @ + 1,
                        !.bound[c.slot + 1] = f.desc_sets_iter + 1,
                        !.cmd = Append(@, [Cmd("bind_descriptor_sets", NoImg, NewImage, -1, at)
                                             EXCEPT !.set = f.desc_sets_iter])]
    [] c.op = "DrawMesh" ->
         IF f.current_target = CanvasNone THEN f
         ELSE LET m == SparseVec_get(f.tables["Mesh"], c.mesh)
              IN IF c.mesh # -1 /\ m.uid = -1 THEN [f EXCEPT !.fatal = TRUE]
                 ELSE [f EXCEPT !.cmd = (@ \o Sampled(f, at, 1))
                                        \o <<Cmd("draw", NoImg, NewImage,
                                                 IF c.mesh = -1 THEN -1 ELSE m.uid, at)>>]

\* the for loop of step 6 over the draw log from entry k on
RECURSIVE replay_from(_, _, _)
replay_from(f, queue, k) ==
  IF k > Len(queue) \/ f.fatal THEN f
  ELSE replay_from(replay_one(f, queue[k], k), queue, k + 1)

\* step 6: the locals of the loop, the loop, then "end pass if needed" and
\* "swap framebuffer back to shader read if needed"
replay(f) ==
  IF f.fatal THEN f
  ELSE IF FirstPipeline(f) = ID_NONE THEN [f EXCEPT !.fatal = TRUE]
  ELSE LET f1 == replay_from([f EXCEPT !.current_target = CanvasNone,
                                       !.current_pipeline = FirstPipeline(f)],
                             draw_cmd_queue, 1)
       IN IF f1.fatal THEN f1 ELSE back_to_shader_read(end_pass(f1))

\* "get swapchain image ready for present", end_command_buffer
finalize(f) == IF f.fatal THEN f ELSE swapchain_barrier(f, PresentSrc)

\* ------------------------------------------------------------------ render, steps 1 to 6

\* the images of a replaced swapchain have no recorded barrier
ForgetSwapchain(rec) ==
  [img \in {i \in DOMAIN rec : i[1] \notin {"SwapchainColor", "SwapchainDepth"}} |-> rec[img]]

\* a recording whose step 4 comes before its step 3
record_PrepareFirst(outcome, image_index) ==
  finalize(replay(descriptors(transfer(prepare(
    acquire(drain(Recording, resource_update_queue), outcome, image_index))))))

\* the recording of one render call up to end_command_buffer
record(outcome, image_index) ==
  finalize(replay(descriptors(prepare(transfer(
    acquire(drain(Recording, resource_update_queue), outcome, image_index))))))

\* reset_command_pool, begin_command_buffer, steps 1 to 6, end_command_buffer.
\* The call stays in device_wait_idle while a submission is pending
RenderRecord(outcome, image_index) ==
  /\ UNCHANGED unitVars
  /\ pc = "record"
  /\ \E f \in {record(outcome, image_index)} :
        /\ NeedsReconstruct /\ ~DeviceIdle => f.drain_fatal
        /\ (f.drain_fatal \/ window_size = 0) => outcome = "ok"
        /\ f.swapchain_draw_data = -1 => image_index = 0
        /\ outcome # "ok" => faults < MaxFaults
        /\ faults' = IF outcome # "ok" THEN faults + 1 ELSE faults
        /\ tables' = f.tables
        /\ destroy_queue' = f.destroy_queue
        /\ surface' = f.surface
        /\ swapchain_draw_data' = f.swapchain_draw_data
        /\ acquire_result' = f.acquire_result
        /\ desc_sets' = f.desc_sets
        /\ cmd' = f.cmd
        /\ reconstructed' = f.reconstructed
        /\ frame_resources' =
             IF f.acquired THEN [frame_resources EXCEPT ![cfr].framebuffer_ready = @ + 1]
             ELSE frame_resources
        /\ freed_in' = [u \in (DOMAIN freed_in) \cup Range(f.freed) |->
                          IF u \in DOMAIN freed_in THEN freed_in[u] ELSE frame_no]
        /\ destroyed_in' = Destroyed(destroyed_in, f.dropped)
        /\ recorded' = IF f.reconstructed THEN ForgetSwapchain(recorded) ELSE recorded
        /\ pc' = IF f.fatal THEN "fatal" ELSE "submit"
  /\ resource_update_queue' = <<>>
  /\ presented' = FALSE
  /\ present_result' = "none"
  /\ UNCHANGED <<resources, draw_cmd_queue, current_pipeline, current_material_ids, next_id,
                 window_size, even_frame, gpu_queue, frame_no, nextUid, calls, fence_waited>>

\* ------------------------------------------------------------------ render, submit and present

\* the GPU objects a command buffer refers to
Refs(buffer) == {buffer[i].uid : i \in 1..Len(buffer)} \ {-1}

\* whether the semaphore wait of a submission can stay unsatisfied: not when
\* a signal of framebuffer_ready is pending; without one the wait is invalid
\* usage, and the submission may run or stay blocked for ever
SubmitBlocked(set) ==
  IF frame_resources[set].framebuffer_ready > 0 THEN {FALSE} ELSE {FALSE, TRUE}

\* what queue_present can return
PresentOutcomes == {"ok", "suboptimal", "out_of_date"}

\* the destination of the last barrier of every image after a command buffer
LastBarriers(rec, buffer) ==
  LET imgs == {buffer[i].img : i \in {j \in 1..Len(buffer) : buffer[j].op = "pipeline_barrier"}}
      last(img) == CHOOSE i \in 1..Len(buffer) :
                     /\ buffer[i].op = "pipeline_barrier" /\ buffer[i].img = img
                     /\ \A j \in (i + 1)..Len(buffer) :
                          ~(buffer[j].op = "pipeline_barrier" /\ buffer[j].img = img)
  IN [img \in (DOMAIN rec) \cup imgs |->
        IF img \in imgs THEN buffer[last(img)].st ELSE rec[img]]

\* a render call that presents whether or not it acquired an image
PresentIfAble_Always == TRUE

\* whether render calls queue_present
PresentIfAble == swapchain_draw_data # -1

\* queue_submit (waits on cfr.framebuffer_ready, signals cfr.render_finished
\* and the fence cfr.resources_usable), "present if able" with its result
\* unwrapped, "change even/odd frame", and the return to run's loop
RenderSubmit(blocked, outcome) ==
  /\ UNCHANGED unitVars
  /\ pc = "submit"
  /\ blocked \in SubmitBlocked(cfr)
  /\ ~PresentIfAble => outcome = "ok"
  /\ gpu_queue' = Append(gpu_queue, [set |-> cfr, frame |-> frame_no, refs |-> Refs(cmd),
                                     blocked |-> blocked])
  /\ frame_resources' = [frame_resources EXCEPT
       ![cfr].framebuffer_ready = IF @ > 0 THEN @ - 1 ELSE 0,
       ![cfr].render_finished = IF PresentIfAble THEN @ ELSE @ + 1,
       ![cfr].last_submit = frame_no]
  /\ presented' = PresentIfAble
  /\ present_result' = IF PresentIfAble THEN outcome ELSE "none"
  /\ IF PresentIfAble /\ outcome = "out_of_date"
     THEN /\ pc' = "fatal"
          /\ UNCHANGED <<even_frame, frame_no>>
     ELSE /\ pc' = "start_update"
          /\ even_frame' = ~even_frame
          /\ frame_no' = frame_no + 1
  /\ recorded' = LastBarriers(recorded, cmd)
  /\ cmd' = <<>>
  /\ UNCHANGED <<ctxVars, tables, destroy_queue, surface, swapchain_draw_data, acquire_result,
                 desc_sets, reconstructed, nextUid, calls, faults, freed_in, destroyed_in, fence_waited>>

\* ------------------------------------------------------------------ the GPU

\* the queue executes its oldest submission and signals the fence given to
\* queue_submit
GpuComplete ==
  /\ UNCHANGED unitVars
  /\ gpu_queue # <<>>
  /\ ~Head(gpu_queue).blocked
  /\ frame_resources' = [frame_resources EXCEPT ![Head(gpu_queue).set].resources_usable = TRUE]
  /\ gpu_queue' = Tail(gpu_queue)
  /\ UNCHANGED <<ctxVars, tables, destroy_queue, even_frame, surface, localVars, pc, historyVars>>

\* ------------------------------------------------------------------ specification

Next ==
  \/ \E size \in {0, 1} : StartUpdate(size)
  \/ \E cat \in UserCategories : Register(cat, IF cat = "Shader" THEN 1 ELSE 0)
  \/ \E id \in 0..(MaxResources - 1) : DropHandle("Framebuffer", id)
  \/ \E canvas \in -1..(MaxResources - 1) : SetCanvas(canvas, TRUE)
  \/ \E shader \in 0..MaxResources, tex \in UserTextures : Draw(shader, tex, -1)
  \/ EndUpdate
  \/ RenderWait
  \/ \E outcome \in AcquireOutcomes, image_index \in 0..(SwapImages - 1) :
       RenderRecord(outcome, image_index)
  \/ \E blocked \in BOOLEAN, outcome \in PresentOutcomes : RenderSubmit(blocked, outcome)
  \/ GpuComplete

Spec == Init /\ [][Next]_vars

\* ------------------------------------------------------------------ buffer.rs

\* usize arithmetic: the range of usize is twice that of isize, one past
\* 2 * isize::MAX + 1
UsizeRange == 2 * (MaxBytes + 1)

\* an expand_to_fit that reallocates whether or not the size fits
expand_to_fit_Unguarded(b, size, id) == VKBuffer_new((size * 2) % UsizeRange, id)

\* an expand_to_fit that grows to the larger of the size and twice the capacity
expand_to_fit_MaxOfBoth(b, size, id) ==
  IF b.size < size
  THEN VKBuffer_new(IF size > (b.size * 2) % UsizeRange THEN size
                    ELSE (b.size * 2) % UsizeRange, id)
  ELSE b

\* VKBuffer::expand_to_fit: the value of *self after the call; id is the
\* allocation VKBuffer::new makes if it is called
expand_to_fit(b, size, id) ==
  IF b.size < size THEN VKBuffer_new((size * 2) % UsizeRange, id) ELSE b

\* the callbacks render passes to map: mem[0..n].copy_from_slice(..), which
\* panics when n is beyond the mapped slice
CallbackPanics(b, n) == n > b.size

\* VKBuffer::map: map_memory, the callback on the mapped slice, unmap_memory;
\* a panic of the callback unwinds through map before unmap_memory
map(b, n) ==
  LET mapped == [b EXCEPT !.mapped = @ + 1]
  IN IF CallbackPanics(b, n) THEN mapped ELSE [mapped EXCEPT !.mapped = @ - 1]

\* a VKBuffer as FrameResources or a resource creation makes it
BufferInit ==
  /\ GfxInit
  /\ \E size \in 0..MaxBytes :
       /\ vk_buffer = VKBuffer_new(size, 0)
       /\ buffer_prev = VKBuffer_new(size, 0)
  /\ buffer_op = [op |-> "none", n |-> 0, panicked |-> FALSE]
  /\ allocations = 1
  /\ dropped = {}
  /\ buffer_calls = 0
  /\ DrawIdle
  /\ LateIdle

\* a call of expand_to_fit(n); the assignment to *self drops the old VKBuffer
ExpandToFit(n) ==
  /\ buffer_calls < MaxCalls
  /\ ~buffer_op.panicked
  /\ vk_buffer' = expand_to_fit(vk_buffer, n, allocations)
  /\ buffer_prev' = vk_buffer
  /\ buffer_op' = [op |-> "expand_to_fit", n |-> n, panicked |-> FALSE]
  /\ allocations' = IF vk_buffer'.allocation = vk_buffer.allocation THEN allocations
                    ELSE allocations + 1
  /\ dropped' = IF vk_buffer'.allocation = vk_buffer.allocation THEN dropped
                ELSE dropped \cup {vk_buffer.allocation}
  /\ buffer_calls' = buffer_calls + 1
  /\ UNCHANGED <<gfxVars, drawVars, lateUnitVars>>

\* a call of map with a callback that writes n bytes
Map(n) ==
  /\ buffer_calls < MaxCalls
  /\ ~buffer_op.panicked
  /\ vk_buffer' = map(vk_buffer, n)
  /\ buffer_prev' = vk_buffer
  /\ buffer_op' = [op |-> "map", n |-> n, panicked |-> CallbackPanics(vk_buffer, n)]
  /\ buffer_calls' = buffer_calls + 1
  /\ UNCHANGED <<allocations, dropped, gfxVars, drawVars, lateUnitVars>>

BufferNext ==
  \/ \E n \in 0..MaxBytes : ExpandToFit(n)
  \/ \E n \in 0..MaxBytes : Map(n)

BufferSpec == BufferInit /\ [][BufferNext]_vars

\* ------------------------------------------------------------------ one frame of draws

IMMEDIATE_ALIGN == 64

\* the shader the application registers in load_fn: the console's is 0
TriangleShader == 1

\* size_of the Vertex of the triangle example: position and color, two Vec3
VertexBytes == 24

\* the framebuffer the application registers for use as a texture
UnitFramebuffer == 0

\* util::align_up
align_up(v, multiple) ==
  IF multiple = 0 THEN v
  ELSE IF v % multiple = 0 THEN v ELSE v + multiple - (v % multiple)

\* GfxFrameData::reset
GfxFrameData_reset ==
  [draw_cmd_queue |-> <<>>, vertices |-> 0, indices |-> 0,
   current_material_ids |-> [i \in 1..MAX_MATERIALS |-> ID_NONE],
   current_pipeline |-> ID_NONE, next_id |-> 0]

\* Option<ImmediateIndicesDraw>
NoIndices == [some |-> FALSE, start |-> 0, n |-> 0, is_u32 |-> FALSE]
ImmediateIndicesDraw(start, n, is_u32) ==
  [some |-> TRUE, start |-> start, n |-> n, is_u32 |-> is_u32]

\* MeshDraw
MeshDraw_Range(from, to) ==
  [kind |-> "Range", range |-> <<from, to>>, start |-> 0, n |-> 0, indices |-> NoIndices]
MeshDraw_Immediate(start, n, indices) ==
  [kind |-> "Immediate", range |-> <<0, 0>>, start |-> start, n |-> n, indices |-> indices]

MeshDraw_Resource(id) == [kind |-> "Resource", id |-> id]

\* InstancesDraw
InstancesDraw_Resource(id) == [kind |-> "Resource", id |-> id]
InstancesDraw_Range(from, to) ==
  [kind |-> "Range", range |-> <<from, to>>, start |-> 0, n |-> 0]
InstancesDraw_Immediate(start, n) ==
  [kind |-> "Immediate", range |-> <<0, 0>>, start |-> start, n |-> n]

\* a one() that names no instance
GPUInstances_one_Empty == InstancesDraw_Range(0, 0)

\* GPUInstances::one().draw()
GPUInstances_one == InstancesDraw_Range(0, 1)

\* GfxCtx::imm_mesh and GPUMesh::draw: frame_data after the call and the
\* MeshDraw of the handle; mesh is [kind, vertices, indices], the variant of
\* Mesh and the lengths of its two vectors (all far below the range of u32)
imm_mesh(fd, mesh) ==
  LET start == fd.vertices
      fd1 == [fd EXCEPT !.vertices =
                align_up(@ + mesh.vertices * VertexBytes, IMMEDIATE_ALIGN)]
      width == IF mesh.kind = "U32" THEN 4 ELSE 2
      fd2 == IF mesh.kind = "NoIndices" THEN fd1
             ELSE [fd1 EXCEPT !.indices = align_up(@ + mesh.indices * width, IMMEDIATE_ALIGN)]
      indices == IF mesh.kind = "NoIndices" THEN NoIndices
                 ELSE ImmediateIndicesDraw(fd1.indices, mesh.indices, mesh.kind = "U32")
  IN [fd |-> fd2, draw |-> MeshDraw_Immediate(start, mesh.vertices, indices)]

\* GfxCtx::imm_instances and GPUInstances::draw
imm_instances(fd, n) ==
  [fd |-> [fd EXCEPT !.vertices = align_up(@ + n * VertexBytes, IMMEDIATE_ALIGN)],
   draw |-> InstancesDraw_Immediate(fd.vertices, n)]

\* GfxCtx::material_cfg: the MaterialInner and frame_data after unique_id
material_cfg(fd, attributes) ==
  [fd |-> [fd EXCEPT !.next_id = @ + 1],
   material |-> [id |-> fd.next_id, attributes |-> attributes]]

\* DrawCmd::DrawMesh(MeshDrawCmdDesc { mesh, instances, push })
DcDrawMeshDesc(mesh, instances) ==
  [op |-> "DrawMesh", id |-> -1, clear |-> FALSE, slot |-> 0, attributes |-> <<>>,
   mesh |-> -1, draw |-> mesh, instances |-> instances]

\* the meshes the application registers in load_fn, by id: the variant of
\* Mesh and the lengths of its two vectors
UnitMeshData ==
  <<[kind |-> "NoIndices", vertices |-> MaxVertices, indices |-> 0],
    [kind |-> "U16", vertices |-> MaxVertices, indices |-> 2 * MaxVertices],
    [kind |-> "U32", vertices |-> MaxVertices, indices |-> 2 * MaxVertices + 1]>>

\* the lengths of the instance vectors the application registers, by id
UnitInstanceData == <<MaxVertices + 1>>

\* VKMesh::new on the MeshBytes of a Mesh
VKMesh_new(data) ==
  [n_vertices |-> data.vertices,
   indices |-> IF data.kind = "NoIndices" THEN NoIndices
               ELSE [some |-> TRUE, start |-> 0, n |-> data.indices,
                     is_u32 |-> data.kind = "U32"]]

\* VKInstances::new on the InstanceBytes of a vector
VKInstances_new(n) == [n |-> n]

\* self.meshes.get(id).unwrap() and self.instances.get(id).unwrap() after
\* step 1 of the frame
meshes_get(id) == VKMesh_new(UnitMeshData[id + 1])
instances_get(id) == VKInstances_new(UnitInstanceData[id + 1])

\* vk::Buffer handles: a scratch buffer of the frame set, a buffer of a mesh
\* or of instances
CfrBuffer(field) == <<"cfr", -1, field>>
ResBuffer(ty, id, field) == <<ty, id, field>>
NoBuffer == <<"none", -1, "none">>

\* a DrawMesh arm that never takes the Indexed variant
draw_type_NonIndexed(mesh) ==
  [indexed |-> FALSE, n_indices |-> 0, buffer |-> NoBuffer, offset |-> 0, is_u32 |-> FALSE,
   range |-> CASE mesh.kind = "Immediate" -> <<0, mesh.n>>
               [] mesh.kind = "Resource" -> <<0, meshes_get(mesh.id).n_vertices>>
               [] OTHER -> mesh.range]

\* the match on mesh of the DrawMesh arm: DrawType
draw_type(mesh) ==
  CASE mesh.kind = "Immediate" /\ mesh.indices.some ->
         [indexed |-> TRUE, n_indices |-> mesh.indices.n, buffer |-> CfrBuffer("index_buffer"),
          offset |-> mesh.indices.start, is_u32 |-> mesh.indices.is_u32, range |-> <<0, 0>>]
    [] mesh.kind = "Immediate" /\ ~mesh.indices.some ->
         [indexed |-> FALSE, n_indices |-> 0, buffer |-> NoBuffer, offset |-> 0,
          is_u32 |-> FALSE, range |-> <<0, mesh.n>>]
    [] mesh.kind = "Resource" /\ meshes_get(mesh.id).indices.some ->
         [indexed |-> TRUE, n_indices |-> meshes_get(mesh.id).indices.n,
          buffer |-> ResBuffer("Mesh", mesh.id, "indices"), offset |-> 0,
          is_u32 |-> meshes_get(mesh.id).indices.is_u32, range |-> <<0, 0>>]
    [] mesh.kind = "Resource" /\ ~meshes_get(mesh.id).indices.some ->
         [indexed |-> FALSE, n_indices |-> 0, buffer |-> NoBuffer, offset |-> 0,
          is_u32 |-> FALSE, range |-> <<0, meshes_get(mesh.id).n_vertices>>]
    [] OTHER ->
         [indexed |-> FALSE, n_indices |-> 0, buffer |-> NoBuffer, offset |-> 0,
          is_u32 |-> FALSE, range |-> mesh.range]

\* the match on instances of the DrawMesh arm: instance_range
instance_range(instances) ==
  CASE instances.kind = "Immediate" -> <<0, instances.n>>
    [] instances.kind = "Resource" -> <<0, instances_get(instances.id).n>>
    [] OTHER -> instances.range

\* the vertex_buffers of the DrawMesh arm
vertex_buffers(c) ==
  (CASE c.draw.kind = "Immediate" -> <<CfrBuffer("vertex_buffer")>>
     [] c.draw.kind = "Resource" -> <<ResBuffer("Mesh", c.draw.id, "vertex_buffer")>>
     [] OTHER -> <<>>)
  \o (CASE c.instances.kind = "Immediate" -> <<CfrBuffer("vertex_buffer")>>
        [] c.instances.kind = "Resource" -> <<ResBuffer("Instances", c.instances.id, "buffer")>>
        [] OTHER -> <<>>)

\* the vertex_buffer_offsets of the DrawMesh arm
vertex_buffer_offsets(c) ==
  (CASE c.draw.kind = "Immediate" -> <<c.draw.start>>
     [] c.draw.kind = "Resource" -> <<0>>
     [] OTHER -> <<>>)
  \o (CASE c.instances.kind = "Immediate" -> <<c.instances.start>>
        [] c.instances.kind = "Resource" -> <<0>>
        [] OTHER -> <<>>)

\* the draw call of the DrawMesh arm: cmd_bind_vertex_buffers(0, buffers,
\* offsets), then cmd_draw(vertex_count, instance_count, first_vertex,
\* first_instance), or cmd_bind_index_buffer(index_buffer, index_offset,
\* UINT32 or UINT16) and cmd_draw_indexed(index_count, instance_count,
\* first_index, vertex_offset, first_instance)
draw_call(c) ==
  LET dt == draw_type(c.draw)
      ir == instance_range(c.instances)
  IN IF dt.indexed
     THEN [op |-> "cmd_draw_indexed", count |-> dt.n_indices,
           instance_count |-> ir[2] - ir[1], first |-> 0, first_instance |-> ir[1],
           buffers |-> vertex_buffers(c), offsets |-> vertex_buffer_offsets(c),
           index_buffer |-> dt.buffer, index_offset |-> dt.offset, is_u32 |-> dt.is_u32]
     ELSE [op |-> "cmd_draw", count |-> dt.range[2] - dt.range[1],
           instance_count |-> ir[2] - ir[1], first |-> dt.range[1], first_instance |-> ir[1],
           buffers |-> vertex_buffers(c), offsets |-> vertex_buffer_offsets(c),
           index_buffer |-> NoBuffer, index_offset |-> 0, is_u32 |-> FALSE]

\* what the first render call drains: the console's resources, the
\* application's shader, its framebuffer, its meshes and its instances
UnitUpdates ==
  resource_update_queue
    \o <<UpdCreate("Shader", TriangleShader, ConsoleResources, shader_slots),
         UpdCreate("Framebuffer", UnitFramebuffer, ConsoleResources + 1, 0)>>
    \o [k \in 1..Len(UnitMeshData) |->
          UpdCreate("Mesh", k - 1, ConsoleResources + 1 + k,
                    IF UnitMeshData[k].kind = "NoIndices" THEN 0 ELSE 1)]
    \o [k \in 1..Len(UnitInstanceData) |->
          UpdCreate("Instances", k - 1, ConsoleResources + 1 + Len(UnitMeshData) + k, 0)]

\* the binds and draws of a command buffer, each draw with its draw call
BindsAndDraws(log, buffer) ==
  LET kept == SelectSeq(buffer, LAMBDA c :
                c.op \in {"bind_pipeline", "bind_descriptor_sets", "draw"})
  IN [i \in 1..Len(kept) |->
        [op |-> kept[i].op, at |-> kept[i].at,
         call |-> IF kept[i].op = "draw" THEN draw_call(log[kept[i].at]) ELSE <<>>]]

\* steps 1 to 6 of render with an acquired image, steps 5 and 6 over log
render_log(log) ==
  LET f1 == prepare(transfer(acquire(drain(Recording, UnitUpdates), "ok", 0)))
      f2 == desc_write_info([f1 EXCEPT !.current_pipeline = ID_NONE], log, 1)
      f3 == IF f2.fatal THEN f2
            ELSE replay_from([f2 EXCEPT !.current_target = CanvasNone,
                                        !.current_pipeline = FirstPipeline(f2)], log, 1)
  IN [done |-> TRUE, log |-> log, fatal |-> f3.fatal,
      cmd |-> IF f3.fatal THEN <<>> ELSE BindsAndDraws(log, f3.cmd)]

\* the texture of the application's material
UnitAttributes == <<AttrRef("FramebufferColor", UnitFramebuffer)>>

\* the log of the state deduplication scenario, on the canvas opened by a
\* SetCanvas of the screen
DedupLog ==
  <<DcSetCanvas(CanvasScreen, TRUE),
    DcSetShader(TriangleShader),
    DcSetMaterial(UnitAttributes, 0),
    DcSetMaterial(UnitAttributes, 0),
    DcDrawMeshDesc(MeshDraw_Range(0, MaxVertices), GPUInstances_one)>>

\* logs handed to the replay as they are
ReplayInputs == {SubSeq(DedupLog, 1, k) : k \in 1..Len(DedupLog)}

\* the Mesh values handed to imm_mesh, "Range" for GPUMesh::range,
\* "Resource" for the handle of a mesh registered in load_fn
MeshInputs ==
  {[kind |-> "NoIndices", vertices |-> n, indices |-> 0] : n \in 1..MaxVertices}
  \cup {[kind |-> k, vertices |-> MaxVertices, indices |-> MaxVertices] :
          k \in {"U16", "U32", "Range"}}
  \cup {[kind |-> "Resource", id |-> k - 1] : k \in 1..Len(UnitMeshData)}

\* the instances of a draw: one(), range(1..3)-like, imm_instances, the
\* handle of the instances registered in load_fn
InstancesInputs == {"one", "range", "immediate", "resource"}

\* size_of the Push types of the shaders the application declares: (), a
\* block of exactly MAX_PUSH bytes, and one f32 more
PushSizes == {0, MAX_PUSH, MAX_PUSH + 4}

\* ShaderFullDefinition::from_partial: the layouts of the four type
\* parameters, taken as they are
ShaderFullDefinition_from_partial(slots, push) ==
  [material_layouts |-> slots, push_constant_layout |-> push, panicked |-> FALSE]

\* a frame of the application: in load_fn frame_data is as constructed, in
\* update it has been reset by start_update
DrawInit ==
  /\ GfxInit
  /\ BufferIdle
  /\ frame_data \in {GfxFrameData_default, GfxFrameData_reset}
  /\ shader_slots \in {0, 1}
  /\ shader_push \in PushSizes
  /\ registered = FALSE
  /\ draw_fatal = "none"
  /\ last_draw = NoDraw
  /\ replayed = NoReplay
  /\ draw_calls = 0
  /\ LateIdle

\* GfxCtx::register_shader::<Vertex, Instance, Materials, Push>(def)
FrameRegister ==
  /\ ~registered
  /\ draw_fatal = "none"
  /\ LET def == ShaderFullDefinition_from_partial(shader_slots, shader_push)
     IN /\ registered' = ~def.panicked
        /\ draw_fatal' = IF def.panicked THEN "register_shader" ELSE "none"
  /\ UNCHANGED <<frame_data, shader_slots, shader_push, last_draw, replayed, draw_calls,
                 gfxVars, bufferVars, lateUnitVars>>

\* GfxCtx::set_canvas(window_canvas, clear_color)
FrameSetCanvas ==
  /\ registered /\ draw_fatal = "none"
  /\ ~replayed.done
  /\ draw_calls < MaxDrawCalls
  /\ frame_data' = [frame_data EXCEPT
                      !.draw_cmd_queue = set_canvas(@, CanvasScreen, TRUE),
                      !.current_pipeline = ID_NONE]
  /\ draw_calls' = draw_calls + 1
  /\ UNCHANGED <<shader_slots, shader_push, registered, draw_fatal, last_draw, replayed,
                 gfxVars, bufferVars, lateUnitVars>>

\* shader_cfg(shader, materials).draw(mesh, instances, ()), with the mesh
\* from imm_mesh, GPUMesh::range or register_mesh and the materials either
\* from material_cfg or those of the last draw (reuse)
FrameDraw(mesh, instances, reuse) ==
  /\ registered /\ draw_fatal = "none"
  /\ ~replayed.done
  /\ draw_calls < MaxDrawCalls
  /\ reuse => last_draw.called /\ shader_slots > 0
  /\ LET c == IF shader_slots > 0 /\ ~reuse
              THEN material_cfg(frame_data, UnitAttributes)
              ELSE [fd |-> frame_data, material |-> <<>>]
         materials == IF shader_slots = 0 THEN <<>>
                      ELSE IF reuse THEN last_draw.materials ELSE <<c.material>>
         m == CASE mesh.kind = "Range" ->
                     [fd |-> c.fd, draw |-> MeshDraw_Range(0, mesh.vertices)]
                [] mesh.kind = "Resource" ->
                     [fd |-> c.fd, draw |-> MeshDraw_Resource(mesh.id)]
                [] OTHER -> imm_mesh(c.fd, mesh)
         i == CASE instances = "one" -> [fd |-> m.fd, draw |-> GPUInstances_one]
                [] instances = "range" ->
                     [fd |-> m.fd, draw |-> InstancesDraw_Range(1, MaxVertices)]
                [] instances = "resource" ->
                     [fd |-> m.fd, draw |-> InstancesDraw_Resource(0)]
                [] OTHER -> imm_instances(m.fd, 2)
         d == ShaderCfg_draw(i.fd.draw_cmd_queue, i.fd.current_pipeline,
                             i.fd.current_material_ids, TriangleShader, materials,
                             DcDrawMeshDesc(m.draw, i.draw), shader_push)
     IN /\ frame_data' = [i.fd EXCEPT !.draw_cmd_queue = d.queue,
                                      !.current_pipeline = d.pipeline,
                                      !.current_material_ids = d.ids]
        /\ last_draw' = [called |-> TRUE, mesh |-> mesh, instances |-> instances,
                         materials |-> materials, before |-> frame_data,
                         appended |-> SubSeq(d.queue, Len(frame_data.draw_cmd_queue) + 1,
                                             Len(d.queue))]
        /\ draw_fatal' = IF d.panicked THEN "draw" ELSE "none"
  /\ draw_calls' = draw_calls + 1
  /\ UNCHANGED <<shader_slots, shader_push, registered, replayed, gfxVars, bufferVars, lateUnitVars>>

\* render: the replay of the frame's log, or of a log handed to it as it is
FrameReplay(log) ==
  /\ registered /\ draw_fatal = "none"
  /\ ~replayed.done
  /\ replayed' = render_log(log)
  /\ UNCHANGED <<frame_data, shader_slots, shader_push, registered, draw_fatal, last_draw,
                 draw_calls, gfxVars, bufferVars, lateUnitVars>>

DrawNext ==
  \/ FrameRegister
  \/ FrameSetCanvas
  \/ \E mesh \in MeshInputs, instances \in InstancesInputs, reuse \in BOOLEAN :
       FrameDraw(mesh, instances, reuse)
  \/ \E log \in {frame_data.draw_cmd_queue} \cup ReplayInputs : FrameReplay(log)

DrawSpec == DrawInit /\ [][DrawNext]_vars

\* ------------------------------------------------------------------ one drain of the update queue

\* the byte lengths a payload is taken with: one byte, the alignment, one
\* byte more, and a staging buffer as constructed
PayloadSizes == {1, STAGING_BUFFER_ALIGN, STAGING_BUFFER_ALIGN + 1, StagingBytes}

\* the lengths of the payloads of a Create: the bytes of a texture, the
\* vertex_bytes of a mesh and the bytes of its indices if it has any, the bytes
\* of instances
CreatePayloads(cat, def) ==
  CASE cat \in {"Texture2D", "Instances"} -> {<<n>> : n \in PayloadSizes}
    [] cat = "Mesh" /\ def = 0 -> {<<n>> : n \in PayloadSizes}
    [] cat = "Mesh" /\ def = 1 -> {<<n, m>> : n \in PayloadSizes, m \in PayloadSizes}
    [] OTHER -> {<<>>}

\* VKImage::get_buffer_copy_to
get_buffer_copy_to(offset) == [to |-> "Image", offset |-> offset]

\* a copy helper that packs the payloads without padding
staging_buffer_buffer_copy_and_align_Packed(s, size) ==
  [s EXCEPT !.staging_buffer_copies =
              Append(@, [bytes |-> size, start |-> s.staging_buffer_size,
                         copy |-> [to |-> "Buffer", offset |-> s.staging_buffer_size]]),
            !.staging_buffer_size = s.staging_buffer_size + size]

\* staging_buffer_buffer_copy_and_align: size is data.len(), offset the
\* src_offset of the vk::BufferCopy
staging_buffer_buffer_copy_and_align(s, size) ==
  [s EXCEPT !.staging_buffer_copies =
              Append(@, [bytes |-> size, start |-> s.staging_buffer_size,
                         copy |-> [to |-> "Buffer", offset |-> s.staging_buffer_size]]),
            !.staging_buffer_size = align_up(s.staging_buffer_size + size, STAGING_BUFFER_ALIGN)]

\* the staging part of one arm of the match on resource_update: p holds the
\* lengths of the payloads of u
staging_one(s, u, p) ==
  CASE u.op = "Create" /\ u.ty = "Texture2D" ->
         [s EXCEPT !.staging_buffer_copies =
                     Append(@, [bytes |-> p[1], start |-> s.staging_buffer_size,
                                copy |-> get_buffer_copy_to(s.staging_buffer_size)]),
                   !.staging_buffer_size =
                     align_up(s.staging_buffer_size + p[1], STAGING_BUFFER_ALIGN)]
    [] u.op = "Create" /\ u.ty = "Mesh" ->
         LET s1 == staging_buffer_buffer_copy_and_align(s, p[1])
         IN IF u.def = 1 THEN staging_buffer_buffer_copy_and_align(s1, p[2]) ELSE s1
    [] u.op = "Create" /\ u.ty = "Instances" ->
         staging_buffer_buffer_copy_and_align(s, p[1])
    [] OTHER -> s

\* step 1 as far as the staging buffer goes
RECURSIVE staging_drain(_, _, _)
staging_drain(s, queue, payloads) ==
  IF queue = <<>> THEN s
  ELSE staging_drain(staging_one(s, Head(queue), Head(payloads)), Tail(queue), Tail(payloads))

\* cfr.staging_buffer.expand_to_fit(staging_buffer_size) on the buffer as
\* constructed: the size in bytes of the buffer afterwards
staging_expand_to_fit(size) == IF size > StagingBytes THEN size * 2 ELSE StagingBytes

\* the first frame of an application that registers resources of any
\* category; the font atlas has any of the lengths
DrainInit ==
  /\ GfxInit
  /\ BufferIdle
  /\ DrawIdle
  /\ updates = ConsoleUpdates
  /\ drained = NoDrain
  /\ \E atlas \in PayloadSizes : staging = NoStaging(atlas)
  /\ LayoutIdle
  /\ TailIdle

\* what def stands for in the Create of a category: the material slots of a
\* shader, whether a mesh has indices
CreateDefs(cat) ==
  CASE cat = "Shader" -> {1}
    [] cat = "Mesh" -> {0, 1}
    [] OTHER -> {0}

\* GfxCtx::register_*: the id is the next one of the category's arena, in
\* which no id is free yet
RegisterUpdate(cat, def) ==
  /\ ~drained.done
  /\ Len(updates) < Len(ConsoleUpdates) + MaxResources
  /\ LET id == Cardinality({i \in 1..Len(updates) : updates[i].ty = cat})
         uid == ConsoleResources + Len(updates) - Len(ConsoleUpdates)
     IN updates' = Append(updates, UpdCreate(cat, id, uid, def))
  /\ \E p \in CreatePayloads(cat, def) :
       staging' = [staging EXCEPT !.payloads = Append(@, p)]
  /\ UNCHANGED <<drained, gfxVars, bufferVars, drawVars, layoutVars, tailUnitVars>>

\* step 1 of the first render call: resource_update_queue.drain(..), and
\* the expand_to_fit of step 3 on the staging buffer of the frame set
DrainRender ==
  /\ ~drained.done
  /\ LET f == drain(Recording, updates)
     IN drained' = [done |-> TRUE, queue |-> updates,
                    staging_buffer_copies |-> f.staging_buffer_copies,
                    tables |-> f.tables, fatal |-> f.fatal]
  /\ LET s == staging_drain(staging, updates, staging.payloads)
     IN staging' = [s EXCEPT !.capacity = staging_expand_to_fit(s.staging_buffer_size)]
  /\ updates' = <<>>
  /\ UNCHANGED <<gfxVars, bufferVars, drawVars, layoutVars, tailUnitVars>>

DrainNext ==
  \/ \E cat \in CategorySet : \E def \in CreateDefs(cat) : RegisterUpdate(cat, def)
  \/ DrainRender

DrainSpec == DrainInit /\ [][DrainNext]_vars

\* ------------------------------------------------------------------ attribute types and layouts

\* an attribute type: ty is the Rust type, norm the N of Normalized<ty, N>,
\* "None" for the bare type
Ty(ty, norm) == [ty |-> ty, norm |-> norm]

\* the components of a Rust type, the bits of one component, and whether the
\* components are floats; Padding4 is Padding<4>, an array of 4 bytes
Shape(ty) ==
  CASE ty = "f32" -> [n |-> 1, bits |-> 32, float |-> TRUE]
    [] ty = "Vec2" -> [n |-> 2, bits |-> 32, float |-> TRUE]
    [] ty = "Vec3" -> [n |-> 3, bits |-> 32, float |-> TRUE]
    [] ty = "Vec4" -> [n |-> 4, bits |-> 32, float |-> TRUE]
    [] ty = "u8" -> [n |-> 1, bits |-> 8, float |-> FALSE]
    [] ty = "U8Vec2" -> [n |-> 2, bits |-> 8, float |-> FALSE]
    [] ty = "U8Vec4" -> [n |-> 4, bits |-> 8, float |-> FALSE]
    [] ty = "u16" -> [n |-> 1, bits |-> 16, float |-> FALSE]
    [] ty = "U16Vec2" -> [n |-> 2, bits |-> 16, float |-> FALSE]
    [] ty = "U16Vec4" -> [n |-> 4, bits |-> 16, float |-> FALSE]
    [] ty = "u32" -> [n |-> 1, bits |-> 32, float |-> FALSE]
    [] ty = "UVec2" -> [n |-> 2, bits |-> 32, float |-> FALSE]
    [] ty = "UVec4" -> [n |-> 4, bits |-> 32, float |-> FALSE]
    [] ty = "Padding4" -> [n |-> 4, bits |-> 8, float |-> FALSE]

\* size_of::<T>(); Normalized<T, N> is repr(C) over T and a PhantomData
size_of(t) == (Shape(t.ty).n * Shape(t.ty).bits) \div 8

\* align_of::<T>(): that of the component, but Vec4 is a SIMD type in the
\* builds of glam that use one
align_of(t) == IF t.ty = "Vec4" THEN vec4_align ELSE Shape(t.ty).bits \div 8

\* offset_of!(Self, field i) in a repr(C) struct, fields counted from 1
RECURSIVE offset_of(_, _)
offset_of(fields, i) ==
  IF i = 1 THEN 0
  ELSE align_up(offset_of(fields, i - 1) + size_of(fields[i - 1]), align_of(fields[i]))

\* size_of::<Self>() of a repr(C) struct: the end of the last field, rounded
\* up to the largest alignment of a field
size_of_struct(fields) ==
  LET n == Len(fields)
      a == CHOOSE x \in {align_of(fields[i]) : i \in 1..n} :
             \A i \in 1..n : align_of(fields[i]) <= x
  IN align_up(offset_of(fields, n) + size_of(fields[n]), a)

\* <T as VertexAttribute>::ID, the impl_*vertex_attr! lines
VertexAttribute_ID(t) ==
  CASE t = Ty("f32", "None") -> "F32"
    [] t = Ty("Vec2", "None") -> "Vec2"
    [] t = Ty("Vec3", "None") -> "Vec3"
    [] t = Ty("Vec4", "None") -> "Vec4"
    [] t = Ty("u8", "None") -> "U8"
    [] t = Ty("U8Vec2", "None") -> "U8Vec2"
    [] t = Ty("U8Vec4", "None") -> "U8Vec4"
    [] t = Ty("u8", "ZeroToOne") -> "U8UNorm"
    [] t = Ty("U8Vec2", "ZeroToOne") -> "U8Vec2UNorm"
    [] t = Ty("U8Vec4", "ZeroToOne") -> "U8Vec4UNorm"
    [] t = Ty("u16", "None") -> "U16"
    [] t = Ty("U16Vec2", "None") -> "U16Vec2"
    [] t = Ty("U16Vec4", "None") -> "U16Vec4"
    [] t = Ty("u16", "ZeroToOne") -> "U16UNorm"
    [] t = Ty("U16Vec2", "ZeroToOne") -> "U16Vec2UNorm"
    [] t = Ty("U16Vec4", "ZeroToOne") -> "U16Vec4UNorm"
    [] t = Ty("u32", "None") -> "U32"
    [] t = Ty("UVec2", "None") -> "U32Vec2"
    [] t = Ty("UVec4", "None") -> "U32Vec4"

\* the types that implement VertexAttribute
VertexTypes ==
  {Ty(ty, "None") : ty \in {"f32", "Vec2", "Vec3", "Vec4", "u8", "U8Vec2", "U8Vec4",
                            "u16", "U16Vec2", "U16Vec4", "u32", "UVec2", "UVec4"}}
    \cup {Ty(ty, "ZeroToOne") : ty \in {"u8", "U8Vec2", "U8Vec4", "u16", "U16Vec2", "U16Vec4"}}

\* <T as TextureAttribute>::IDS, the impl_*texture_attr! lines
TextureAttribute_IDS(t) ==
  CASE t.ty = "f32" -> <<"F32", t.norm>>
    [] t.ty = "Vec2" -> <<"Vec2", t.norm>>
    [] t.ty = "Vec4" -> <<"Vec4", t.norm>>
    [] t.ty = "u32" -> <<"U32", t.norm>>
    [] t.ty = "u8" -> <<"U8", t.norm>>
    [] t.ty = "U8Vec2" -> <<"U8Vec2", t.norm>>
    [] t.ty = "U8Vec4" -> <<"U8Vec4", t.norm>>
    [] t.ty = "u16" -> <<"U16", t.norm>>
    [] t.ty = "U16Vec2" -> <<"U16Vec2", t.norm>>
    [] t = Ty("U16Vec4", "None") -> <<"U8Vec4", t.norm>>
    [] t.ty = "U16Vec4" /\ t.norm # "None" -> <<"U16Vec4", t.norm>>

\* the types that implement TextureAttribute
TextureTypes ==
  {Ty(ty, "None") : ty \in {"f32", "Vec2", "Vec4", "u32", "u8", "U8Vec2", "U8Vec4",
                            "u16", "U16Vec2", "U16Vec4"}}
    \cup {Ty(ty, "Srgb") : ty \in {"u8", "U8Vec2", "U8Vec4"}}
    \cup {Ty(ty, norm) : ty \in {"u8", "U8Vec2", "U8Vec4", "u16", "U16Vec2", "U16Vec4"},
                         norm \in {"ZeroToOne", "MinusOneToOne"}}

\* <T as UniformAttribute>::ID and ALIGNMENT, for the types used here
UniformAttribute(t) ==
  CASE t.ty = "f32" -> [ID |-> "F32", ALIGNMENT |-> 4]
    [] t.ty = "Vec2" -> [ID |-> "Vec2", ALIGNMENT |-> 8]
    [] t.ty = "Vec3" -> [ID |-> "Vec3", ALIGNMENT |-> 16]
    [] t.ty = "Vec4" -> [ID |-> "Vec4", ALIGNMENT |-> 16]
    [] t.ty = "u32" -> [ID |-> "U32", ALIGNMENT |-> 4]
    [] t.ty = "Padding4" -> [ID |-> "Padding", ALIGNMENT |-> 1]

\* some of the types that implement UniformAttribute
UniformTypes == {Ty(ty, "None") : ty \in {"f32", "Vec2", "Vec3", "Vec4", "u32", "Padding4"}}

\* a vk::Format: n components of the given bits, read as num
VkFormat(n, bits, num) == [n |-> n, bits |-> bits, num |-> num]

\* the match on attr.attribute in add_vertex_layout_data
vertex_format(attribute) ==
  CASE attribute = "F32" -> VkFormat(1, 32, "SFLOAT")
    [] attribute = "Vec2" -> VkFormat(2, 32, "SFLOAT")
    [] attribute = "Vec3" -> VkFormat(3, 32, "SFLOAT")
    [] attribute = "Vec4" -> VkFormat(4, 32, "SFLOAT")
    [] attribute = "U8" -> VkFormat(1, 8, "UINT")
    [] attribute = "U8Vec2" -> VkFormat(2, 8, "UINT")
    [] attribute = "U8Vec4" -> VkFormat(4, 8, "UINT")
    [] attribute = "U8UNorm" -> VkFormat(1, 8, "UNORM")
    [] attribute = "U8Vec2UNorm" -> VkFormat(2, 8, "UNORM")
    [] attribute = "U8Vec4UNorm" -> VkFormat(4, 8, "UNORM")
    [] attribute = "U16" -> VkFormat(1, 16, "UINT")
    [] attribute = "U16Vec2" -> VkFormat(2, 16, "UINT")
    [] attribute = "U16Vec4" -> VkFormat(4, 16, "UINT")
    [] attribute = "U16UNorm" -> VkFormat(1, 16, "UNORM")
    [] attribute = "U16Vec2UNorm" -> VkFormat(2, 16, "UNORM")
    [] attribute = "U16Vec4UNorm" -> VkFormat(4, 16, "UNORM")
    [] attribute = "U32" -> VkFormat(1, 32, "UINT")
    [] attribute = "U32Vec2" -> VkFormat(2, 32, "UINT")
    [] attribute = "U32Vec4" -> VkFormat(4, 32, "UINT")

\* the inner match on the normalization for the 8 bit kinds
format_u8(n, normalization) ==
  CASE normalization = "None" -> VkFormat(n, 8, "UINT")
    [] normalization = "Srgb" -> VkFormat(n, 8, "SRGB")
    [] normalization = "MinusOneToOne" -> VkFormat(n, 8, "SNORM")
    [] normalization = "ZeroToOne" -> VkFormat(n, 8, "UNORM")

\* the inner match on the normalization for the 16 bit kinds
format_u16(n, normalization) ==
  CASE normalization = "MinusOneToOne" -> VkFormat(n, 16, "SNORM")
    [] normalization = "ZeroToOne" -> VkFormat(n, 16, "UNORM")
    [] OTHER -> VkFormat(n, 16, "UINT")

\* VKImage::texture_attribute_to_vk_format
texture_attribute_to_vk_format(attribute, normalization) ==
  CASE attribute = "F32" -> VkFormat(1, 32, "SFLOAT")
    [] attribute = "Vec2" -> VkFormat(2, 32, "SFLOAT")
    [] attribute = "Vec4" -> VkFormat(4, 32, "SFLOAT")
    [] attribute = "U8" -> format_u8(1, normalization)
    [] attribute = "U8Vec2" -> format_u8(2, normalization)
    [] attribute = "U8Vec4" -> format_u8(4, normalization)
    [] attribute = "U16" -> format_u16(1, normalization)
    [] attribute = "U16Vec2" -> format_u16(2, normalization)
    [] attribute = "U16Vec4" -> format_u16(4, normalization)
    [] attribute = "U32" -> VkFormat(1, 32, "UINT")

\* the layout() that derive(VertexTy) generates: every field with its
\* offset_of, size_of::<Self>(); nothing is refused
derive_vertex_ty(fields) ==
  [defined |-> TRUE, rejected |-> FALSE,
   attributes |-> [i \in 1..Len(fields) |->
                     [attribute |-> VertexAttribute_ID(fields[i]),
                      offset |-> offset_of(fields, i)]],
   size |-> size_of_struct(fields)]

\* const ATTR_END_i of derive(UniformTy): the offset of field i, and the
\* panic that fails the build when the one before is not 0 and the offset is
\* not a multiple of the ALIGNMENT of the field
ATTR_END(fields, i) == IF i = 0 THEN 0 ELSE offset_of(fields, i)

AttrEndPanics(fields, i) ==
  /\ ATTR_END(fields, i - 1) # 0
  /\ ATTR_END(fields, i) % UniformAttribute(fields[i]).ALIGNMENT # 0

\* the layout() that derive(UniformTy) generates: the fields that are not
\* Padding with their offsets, size_of::<Self>()
derive_uniform_ty(fields) ==
  LET kept == SelectSeq([i \in 1..Len(fields) |->
                           [attribute |-> UniformAttribute(fields[i]).ID,
                            offset |-> ATTR_END(fields, i)]],
                        LAMBDA a : a.attribute # "Padding")
      rejected == \E i \in 1..Len(fields) : AttrEndPanics(fields, i)
  IN [defined |-> TRUE, rejected |-> rejected,
      attributes |-> IF rejected THEN <<>> ELSE kept,
      size |-> IF rejected THEN 0 ELSE size_of_struct(fields)]

\* the structs of up to MaxFields fields over a set of attribute types
Structs(types) == UNION {[1..n -> types] : n \in 1..MaxFields}

\* a type of the application: a repr(C) struct that derives VertexTy or
\* UniformTy, or the pixel type of a Texture
LayoutInit ==
  /\ GfxInit
  /\ BufferIdle
  /\ DrawIdle
  /\ DrainIdle
  /\ TailIdle
  /\ type_def \in [derive : {"VertexTy"}, fields : Structs(VertexTypes)]
                   \cup [derive : {"UniformTy"}, fields : Structs(UniformTypes)]
                   \cup [derive : {"TextureAttribute"}, fields : Structs(TextureTypes)]
  /\ type_def.derive = "TextureAttribute" => Len(type_def.fields) = 1
  /\ vec4_align \in {4, 16}
  /\ layout = NoLayout
  /\ formats = NoFormats

\* the build of the crate that defines the type: the derived impl, with its
\* const blocks evaluated
DeriveVertexTy ==
  /\ type_def.derive = "VertexTy"
  /\ ~layout.defined
  /\ layout' = derive_vertex_ty(type_def.fields)
  /\ UNCHANGED <<type_def, vec4_align, formats, gfxVars, bufferVars, drawVars, drainVars, tailUnitVars>>

DeriveUniformTy ==
  /\ type_def.derive = "UniformTy"
  /\ ~layout.defined
  /\ layout' = derive_uniform_ty(type_def.fields)
  /\ UNCHANGED <<type_def, vec4_align, formats, gfxVars, bufferVars, drawVars, drainVars, tailUnitVars>>

\* add_vertex_layout_data for a shader whose Vertex is the type, when the
\* pipeline is built
AddVertexLayoutData ==
  /\ type_def.derive = "VertexTy"
  /\ layout.defined /\ ~layout.rejected
  /\ ~formats.built
  /\ formats' = [built |-> TRUE,
                 list |-> [i \in 1..Len(layout.attributes) |->
                             vertex_format(layout.attributes[i].attribute)]]
  /\ UNCHANGED <<type_def, vec4_align, layout, gfxVars, bufferVars, drawVars, drainVars, tailUnitVars>>

\* a texture of the pixel type is registered and its image created: T::IDS,
\* then texture_attribute_to_vk_format
CreateTexture ==
  /\ type_def.derive = "TextureAttribute"
  /\ ~formats.built
  /\ LET ids == TextureAttribute_IDS(type_def.fields[1])
     IN formats' = [built |-> TRUE,
                    list |-> <<texture_attribute_to_vk_format(ids[1], ids[2])>>]
  /\ UNCHANGED <<type_def, vec4_align, layout, gfxVars, bufferVars, drawVars, drainVars, tailUnitVars>>

LayoutNext ==
  \/ DeriveVertexTy
  \/ DeriveUniformTy
  \/ AddVertexLayoutData
  \/ CreateTexture

LayoutSpec == LayoutInit /\ [][LayoutNext]_vars

\* ------------------------------------------------------------------ one image and its barriers

\* the barriers asked of one image
MaxBarriers == 3

\* the layouts and access masks render passes to change_layout_mem_barrier
Layouts ==
  {"TRANSFER_DST_OPTIMAL", "SHADER_READ_ONLY_OPTIMAL", "COLOR_ATTACHMENT_OPTIMAL",
   "DEPTH_STENCIL_ATTACHMENT_OPTIMAL", "PRESENT_SRC_KHR"}
AccessMasks ==
  {"TRANSFER_WRITE", "SHADER_READ", "COLOR_ATTACHMENT_READ_WRITE",
   "DEPTH_STENCIL_ATTACHMENT_READ_WRITE", "NONE"}

\* a change_layout_mem_barrier that describes the new state as the source of
\* the barrier too
VKImage_change_layout_mem_barrier_FromNew(self, new_layout, new_access) ==
  [barrier |-> change_layout_mem_barrier("image", ImgState(new_layout, new_access),
                                         ImgState(new_layout, new_access)),
   self |-> ImgState(new_layout, new_access)]

\* VKImage::change_layout_mem_barrier(&mut self, layout, access_mask): the
\* barrier is built from self.layout and self.access_mask, then the two
\* fields are overwritten; barrier is the value returned, self the image after
VKImage_change_layout_mem_barrier(self, new_layout, new_access) ==
  [barrier |-> change_layout_mem_barrier("image", self, ImgState(new_layout, new_access)),
   self |-> ImgState(new_layout, new_access)]

\* an image as VKImage::new makes it
ImageInit ==
  /\ GfxInit
  /\ BufferIdle
  /\ DrawIdle
  /\ DrainIdle
  /\ LayoutIdle
  /\ ImageIdle
  /\ ScratchIdle

\* a call of change_layout_mem_barrier(layout, access_mask) on the image
ChangeLayout(new_layout, new_access) ==
  /\ Len(image_calls) < MaxBarriers
  /\ LET r == VKImage_change_layout_mem_barrier(vk_image, new_layout, new_access)
     IN /\ vk_image' = r.self
        /\ image_calls' = Append(image_calls,
                                 [layout |-> new_layout, access_mask |-> new_access,
                                  before |-> vk_image, barrier |-> r.barrier,
                                  after |-> r.self])
  /\ UNCHANGED <<gfxVars, bufferVars, drawVars, drainVars, layoutVars, scratchVars>>

ImageNext == \E new_layout \in Layouts, new_access \in AccessMasks :
    ChangeLayout(new_layout, new_access)

ImageSpec == ImageInit /\ [][ImageNext]_vars

\* ------------------------------------------------------------------ the scratch buffers of the frame sets

\* the bytes a frame has for one scratch buffer, in units of 2 MiB: none, an
\* amount that fits every buffer as constructed, an amount that fits none
ScratchSizes == {0, 1, MaxBytes}

\* the frames taken: immediate geometry and uniforms are drawn in each, with
\* or without uploads through the staging buffer
ScratchFrames ==
  {sizes \in [1..4 -> ScratchSizes] : sizes[2] > 0 /\ sizes[3] > 0 /\ sizes[4] > 0}

\* the frame resource set render selects
scratch_cfr == IF scratch_even THEN 0 ELSE 1

\* a wait that returns at once, whatever the state of the fence
ScratchFenceReturns_NoWait(set) == TRUE

\* wait_for_fences(cfr.resources_usable, u64::MAX) returns
ScratchFenceReturns(set) == scratch_sets[set].resources_usable

\* the buffers named by the submissions the GPU has not executed yet
ScratchPending == UNION {scratch_gpu[i].refs : i \in 1..Len(scratch_gpu)}

\* cfr.<field>.expand_to_fit(size): f is the call so far, its set, the
\* buffers named by the commands recorded so far, and the buffers dropped
scratch_expand(f, field, size) ==
  LET old == f.cfr[field]
      id == ScratchAllocation(old.allocation[1], field, old.allocation[3] + 1)
      new == expand_to_fit(old, size, id)
  IN [f EXCEPT !.cfr[field] = new,
               !.dropped = IF new.allocation = old.allocation THEN @
                           ELSE Append(@, [buffer |-> old.allocation,
                                           recorded |-> f.refs,
                                           pending |-> ScratchPending,
                                           used |-> old.allocation \in f.cfr.last_refs])]

\* the commands that name a scratch buffer: the staging copies, the
\* descriptors of immediate uniforms, the draws of immediate meshes; none
\* when the frame has no bytes for the buffer
scratch_name(f, field, size) ==
  [f EXCEPT !.refs = IF size > 0 THEN @ \cup {f.cfr[field].allocation} ELSE @]

\* render from step 3 on, as far as the scratch buffers go: the staging
\* buffer is expanded and named by the copies, the vertex, index and uniform
\* buffers are expanded, then step 5 names the uniform buffer and step 6 the
\* vertex and the index buffer
scratch_render(set, sizes) ==
  LET f0 == [cfr |-> set, refs |-> {}, dropped |-> <<>>]
      f1 == scratch_name(scratch_expand(f0, "staging_buffer", sizes[1]),
                         "staging_buffer", sizes[1])
      f2 == scratch_expand(f1, "vertex_buffer", sizes[2])
      f3 == scratch_expand(f2, "index_buffer", sizes[3])
      f4 == scratch_expand(f3, "uniform_buffer", sizes[4])
      f5 == scratch_name(f4, "uniform_buffer", sizes[4])
  IN scratch_name(scratch_name(f5, "vertex_buffer", sizes[2]), "index_buffer", sizes[3])

\* the backend as VulkanGfxBackend::load makes it
ScratchInit ==
  /\ GfxInit
  /\ BufferIdle
  /\ DrawIdle
  /\ DrainIdle
  /\ LayoutIdle
  /\ ImageIdle
  /\ ScratchIdle

\* step 0 of render: wait_for_fences, reset_fences
ScratchWait ==
  /\ scratch_pc = "wait"
  /\ scratch_calls < MaxFrames
  /\ ScratchFenceReturns(scratch_cfr)
  /\ scratch_sets' = [scratch_sets EXCEPT ![scratch_cfr].resources_usable = FALSE]
  /\ scratch_pc' = "record"
  /\ UNCHANGED <<scratch_even, scratch_gpu, scratch_frame, scratch_calls,
                 gfxVars, bufferVars, drawVars, drainVars, layoutVars, imageVars>>

\* the rest of render: the recording, queue_submit with the fence of the
\* set, and the parity flip; sizes are the bytes of the frame for the staging,
\* vertex, index and uniform buffer
ScratchRender(sizes) ==
  /\ scratch_pc = "record"
  /\ LET f == scratch_render(scratch_sets[scratch_cfr], sizes)
     IN /\ scratch_sets' = [scratch_sets EXCEPT ![scratch_cfr] = [f.cfr EXCEPT !.last_refs = f.refs]]
        /\ scratch_gpu' = Append(scratch_gpu, [set |-> scratch_cfr, refs |-> f.refs])
        /\ scratch_frame' = [dropped |-> f.dropped, refs |-> f.refs, set |-> scratch_cfr]
  /\ scratch_even' = ~scratch_even
  /\ scratch_pc' = "wait"
  /\ scratch_calls' = scratch_calls + 1
  /\ UNCHANGED <<gfxVars, bufferVars, drawVars, drainVars, layoutVars, imageVars>>

\* the queue executes its oldest submission and signals its fence
ScratchGpuComplete ==
  /\ scratch_gpu # <<>>
  /\ scratch_sets' = [scratch_sets EXCEPT ![Head(scratch_gpu).set].resources_usable = TRUE]
  /\ scratch_gpu' = Tail(scratch_gpu)
  /\ UNCHANGED <<scratch_even, scratch_pc, scratch_frame, scratch_calls,
                 gfxVars, bufferVars, drawVars, drainVars, layoutVars, imageVars>>

ScratchNext ==
  \/ ScratchWait
  \/ \E sizes \in ScratchFrames : ScratchRender(sizes)
  \/ ScratchGpuComplete

ScratchSpec == ScratchInit /\ [][ScratchNext]_vars

\* ------------------------------------------------------------------ deferred deletion

\* the GPU objects held by the destroy queue
Queued == {destroy_queue[i].uid : i \in 1..Len(destroy_queue)}

\* C1 as the specification states it: a GPU object whose Free update is
\* drained while recording frame N is not destroyed until the fence signaled
\* by frame N's own submit has been waited on and found signaled.
C1_DestroyedAfterOwnFence ==
  \A u \in (DOMAIN destroyed_in) \cap (DOMAIN freed_in) : freed_in[u] \in fence_waited

\* C1 as the code has it: a GPU object whose Free update is drained while
\* recording frame N stays in the single destroy queue until the fence wait at
\* the start of render call N + 1 returns, and is destroyed right after that
\* wait; the fence waited on there is the one signaled by frame N - 1's submit
\* (the other frame resource set), not frame N's own.
C1_DestroyedAfterNextFenceWait ==
  /\ \A u \in (DOMAIN freed_in) \ (DOMAIN destroyed_in) : u \in Queued
  /\ \A u \in (DOMAIN destroyed_in) \cap (DOMAIN freed_in) :
       /\ freed_in[u] >= 1
       /\ destroyed_in[u] = freed_in[u] + 1
       /\ (freed_in[u] - 1) \in fence_waited
       /\ u \notin Queued

\* an object freed in one frame has been destroyed in the next, before the
\* fence of the frame that freed it was waited on
C1_Witness ==
  \E u \in (DOMAIN destroyed_in) \cap (DOMAIN freed_in) :
    /\ destroyed_in[u] = freed_in[u] + 1
    /\ freed_in[u] \notin fence_waited

\* C2: no GPU object is destroyed while a submitted command buffer that
\* refers to it has not finished executing.
C2_NoDestroyWhileReferenced ==
  \A i \in 1..Len(gpu_queue) : gpu_queue[i].refs \cap (DOMAIN destroyed_in) = {}

\* an object has been destroyed while a submission, which does not refer to
\* it, is still pending
C2_Witness ==
  /\ gpu_queue # <<>>
  /\ \E u \in DOMAIN destroyed_in : \A i \in 1..Len(gpu_queue) : u \notin gpu_queue[i].refs

\* C3: the CPU records into and writes the selected frame resource set only
\* after the wait on that set's fence has returned, so no submission that
\* uses the set is pending while the set is re-recorded.
C3_RecordAfterFenceWait ==
  pc \in {"record", "submit"} =>
    /\ \A i \in 1..Len(gpu_queue) : gpu_queue[i].set # cfr
    /\ frame_resources[cfr].last_submit >= 0 =>
         frame_resources[cfr].last_submit \in fence_waited

\* a set is being recorded for the second time while the submission of the
\* other set is still pending
C3_Witness ==
  /\ pc = "record"
  /\ frame_resources[cfr].last_submit >= 0
  /\ gpu_queue # <<>>

\* ------------------------------------------------------------------ the fence wait

\* the fence of a set is signaled, or the submission that signals it is in
\* the queue with nothing before it that can never execute
FenceWillSignal(set) ==
  \/ frame_resources[set].resources_usable
  \/ \E i \in 1..Len(gpu_queue) :
       /\ gpu_queue[i].set = set
       /\ \A j \in 1..i : ~gpu_queue[j].blocked

\* C4: the fence wait at the start of every render call eventually returns:
\* whenever the call is at the wait, the fence is signaled or the previous
\* submission of the set is able to complete and signal it, also when that
\* frame acquired no swapchain image.
C4_FenceWaitReturns == pc = "wait" => FenceWillSignal(cfr)

\* ------------------------------------------------------------------ image layouts

\* the images alive in the backend with the (layout, access) each stores
ImageStates ==
  {<<ImgTexture(o.uid), o.color>> : o \in {t \in Range(tables["Texture2D"]) : t.uid # -1}}
  \cup {<<ImgFbColor(o.uid), o.color>> : o \in {t \in Range(tables["Framebuffer"]) : t.uid # -1}}
  \cup {<<ImgFbDepth(o.uid), o.depth>> : o \in {t \in Range(tables["Framebuffer"]) : t.uid # -1}}
  \cup {<<ImgSwapColor(i - 1), surface.color_images[i]>> : i \in 1..SwapImages}
  \cup {<<ImgSwapDepth, surface.depth_image>>}

\* the destination of the last barrier recorded for an image before position
\* p of the command buffer, in this buffer or in an earlier one; the state of
\* a new image when there is none
StateBefore(p, img) ==
  LET prior == {j \in 1..(p - 1) : cmd[j].op = "pipeline_barrier" /\ cmd[j].img = img}
  IN IF prior # {} THEN cmd[CHOOSE j \in prior : \A k \in prior : k <= j].st
     ELSE IF img \in DOMAIN recorded THEN recorded[img]
     ELSE NewImage

\* C5: at the end of every render call the (layout, access) pair stored in
\* every image equals the destination of the last barrier recorded for it.
C5_StoredStateIsLastBarrier ==
  pc # "fatal" => \A s \in ImageStates : s[2] = StateBefore(Len(cmd) + 1, s[1])

\* a recorded buffer in which a framebuffer was a render target: its color
\* image went to COLOR_ATTACHMENT and back, and stores SHADER_READ
C5_Witness ==
  /\ pc = "submit"
  /\ \E p \in 1..Len(cmd) :
       /\ cmd[p].op = "pipeline_barrier"
       /\ cmd[p].img[1] = "FramebufferColor"
       /\ cmd[p].st = ColorAttachment
       /\ <<cmd[p].img, ShaderRead>> \in ImageStates

\* the layout a command needs its image to be in
RequiredLayout(op) ==
  CASE op \in {"clear_color_image", "clear_depth_stencil_image", "copy_buffer_to_image"} ->
         "TRANSFER_DST_OPTIMAL"
    [] op \in {"begin_rendering_clear", "begin_rendering_load"} -> "COLOR_ATTACHMENT_OPTIMAL"
    [] op = "depth_attachment" -> "DEPTH_STENCIL_ATTACHMENT_OPTIMAL"
    [] op = "sample" -> "SHADER_READ_ONLY_OPTIMAL"
    [] OTHER -> "any"

\* C6: every layout-dependent command is recorded where the last barrier of
\* its image established the layout it needs: clears and copies in
\* TRANSFER_DST, a pass on a color image in COLOR_ATTACHMENT and a depth image
\* in DEPTH_STENCIL_ATTACHMENT, a sampling draw in SHADER_READ_ONLY, a present
\* in PRESENT_SRC.
C6_CommandsInRequiredLayout ==
  /\ \A p \in 1..Len(cmd) :
       RequiredLayout(cmd[p].op) # "any" =>
         StateBefore(p, cmd[p].img).layout = RequiredLayout(cmd[p].op)
  /\ pc = "submit" /\ PresentIfAble =>
       StateBefore(Len(cmd) + 1, ImgSwapColor(swapchain_draw_data)).layout = "PRESENT_SRC_KHR"

\* C7: no two consecutive barriers recorded for one image have the same
\* destination (layout, access) pair.
C7_NoRepeatedBarrier ==
  \A p \in 1..Len(cmd) :
    cmd[p].op = "pipeline_barrier" => StateBefore(p, cmd[p].img) # cmd[p].st

\* ------------------------------------------------------------------ the registry

\* the ids of a category that name a resource: the slot holds a weak reference
Occupied(cat) == {i \in 0..(Len(resources[cat].vec) - 1) : IsSome(resources[cat].vec[i + 1])}

\* C8: no two resources of one category that are alive at the same time have
\* the same ResourceID, and an id is handed out again only after its slot was
\* cleared and marked free: every id on the free list names an empty slot,
\* once, the id the next insert returns names no resource, and no resource
\* holds two ids.
C8_UniqueResourceIDs ==
  \A cat \in CategorySet :
    LET inner == resources[cat]
    IN /\ \A k \in 1..Len(inner.free) :
            /\ inner.free[k] < Len(inner.vec)
            /\ ~IsSome(inner.vec[inner.free[k] + 1])
            /\ \A l \in 1..Len(inner.free) : inner.free[k] = inner.free[l] => k = l
       /\ IDVec_insert_id(inner) \notin Occupied(cat)
       /\ \A i, j \in Occupied(cat) : inner.vec[i + 1].uid = inner.vec[j + 1].uid => i = j

\* the id of a collected framebuffer names a second framebuffer
C8_Witness ==
  /\ Len(resources["Framebuffer"].vec) = 1
  /\ IsSome(resources["Framebuffer"].vec[1])
  /\ \E u \in DOMAIN freed_in : u # resources["Framebuffer"].vec[1].uid

\* ------------------------------------------------------------------ resource lifecycle

\* the Create updates queued for a resource
Creates(u) ==
  {k \in 1..Len(resource_update_queue) :
     resource_update_queue[k].op = "Create" /\ resource_update_queue[k].uid = u}

\* the Free updates queued for an id
Frees(queue, cat, id) ==
  {k \in 1..Len(queue) : queue[k].op = "Free" /\ queue[k].ty = cat /\ queue[k].id = id}

\* the backend objects realized for a resource
Realized(u) ==
  UNION {{<<cat, i>> : i \in {j \in 1..Len(tables[cat]) : tables[cat][j].uid = u}} :
           cat \in CategorySet}

\* C9: every registered resource gets exactly one Create update, realized as
\* one backend object by the first drain after the registration; once all
\* its handles are dropped, the next frame start enqueues exactly one Free
\* update for it and clears its slot, and that frame's drain consumes the Free
\* and moves the realized object into the destroy queue.
C9_Lifecycle ==
  [][ /\ \A u \in 0..(nextUid - 1) :
           Cardinality(Creates(u)) + Cardinality(Realized(u))
             + (IF u \in Queued THEN 1 ELSE 0)
             + (IF u \in DOMAIN destroyed_in THEN 1 ELSE 0) = 1
      /\ pc = "submit" => resource_update_queue = <<>>
      /\ pc = "start_update" /\ pc' = "update" =>
           \A cat \in CategorySet : \A id \in 0..(Len(resources[cat].vec) - 1) :
             IF IsSome(resources[cat].vec[id + 1]) /\ resources[cat].vec[id + 1].strong = 0
             THEN /\ Cardinality(Frees(resource_update_queue', cat, id)) = 1
                  /\ ~IsSome(resources'[cat].vec[id + 1])
             ELSE Frees(resource_update_queue', cat, id) = {}
      /\ pc = "record" /\ pc' # "record" =>
           \A k \in 1..Len(resource_update_queue) :
             LET u == resource_update_queue[k]
             IN u.op = "Free" =>
                  /\ SparseVec_get(tables[u.ty], u.id).uid \in
                       {destroy_queue'[i].uid : i \in 1..Len(destroy_queue')}
                  /\ SparseVec_get(tables[u.ty], u.id).uid \notin
                       {tables'[u.ty][i].uid : i \in 1..Len(tables'[u.ty])}
    ]_vars

\* the Free of a resource has been consumed and its object waits in the
\* destroy queue
C9_Witness == \E u \in DOMAIN freed_in : u \in Queued

\* ------------------------------------------------------------------ acquire failures

\* the canvas a log entry draws to: the id of the last SetCanvas before it
RECURSIVE TargetOf(_)
TargetOf(k) ==
  IF k = 0 THEN CanvasNone
  ELSE IF draw_cmd_queue[k].op = "SetCanvas" THEN draw_cmd_queue[k].id
  ELSE TargetOf(k - 1)

\* the DrawMesh entries of the log that target a framebuffer
OffscreenDraws ==
  {k \in 1..Len(draw_cmd_queue) : draw_cmd_queue[k].op = "DrawMesh" /\ TargetOf(k) >= 0}

\* C10: when the acquire reports out-of-date the surface is marked dirty, no
\* present is issued in that frame, the draws that target framebuffers are
\* still recorded, the frame is submitted and the parity flipped; any other
\* acquire error is fatal.
C10_OutOfDateAcquire ==
  [][ /\ pc = "record" /\ pc' # "record" /\ acquire_result' = "out_of_date" =>
           /\ pc' = "submit"
           /\ surface'.swapchain_is_bad
           /\ swapchain_draw_data' = -1
           /\ \A k \in OffscreenDraws : \E p \in 1..Len(cmd') :
                cmd'[p].op = "draw" /\ cmd'[p].at = k
      /\ pc = "submit" /\ pc' # "submit" /\ acquire_result = "out_of_date" =>
           /\ ~presented'
           /\ gpu_queue' = Append(gpu_queue, gpu_queue'[Len(gpu_queue')])
           /\ gpu_queue'[Len(gpu_queue')].frame = frame_no
           /\ even_frame' = ~even_frame
           /\ pc' = "start_update"
      /\ pc = "record" /\ pc' # "record" /\ acquire_result' = "error" => pc' = "fatal"
    ]_vars

\* a frame whose acquire reported out-of-date and whose draw to a framebuffer
\* is in the command buffer about to be submitted
C10_Witness ==
  /\ pc = "submit"
  /\ acquire_result = "out_of_date"
  /\ \E k \in OffscreenDraws : \E p \in 1..Len(cmd) : cmd[p].op = "draw" /\ cmd[p].at = k

\* ------------------------------------------------------------------ present failures

\* C11: a present call that fails because the surface is stale (out-of-date
\* or suboptimal) marks the surface dirty and is not fatal: the render call
\* completes and flips the parity.
C11_StalePresentNotFatal ==
  [][ pc = "submit" /\ pc' # "submit" /\ present_result' \in {"out_of_date", "suboptimal"} =>
        /\ surface'.swapchain_is_bad
        /\ pc' = "start_update"
        /\ even_frame' = ~even_frame
    ]_vars

\* ------------------------------------------------------------------ suboptimal acquire

\* C12 as the specification states it: when the acquire reports suboptimal
\* the surface is marked dirty and no present is issued in that frame.
C12_SuboptimalSkipsPresent ==
  [][ /\ pc = "record" /\ pc' # "record" /\ acquire_result' = "suboptimal" =>
           surface'.swapchain_is_bad
      /\ pc = "submit" /\ pc' # "submit" /\ acquire_result = "suboptimal" => ~presented'
    ]_vars

\* C12 as the code has it: when the acquire reports suboptimal the surface is
\* marked dirty, the acquired image is kept as the screen target of the frame,
\* and the frame is submitted and presented like any other.
C12_SuboptimalStillPresents ==
  [][ /\ pc = "record" /\ pc' # "record" /\ acquire_result' = "suboptimal" =>
           /\ surface'.swapchain_is_bad
           /\ swapchain_draw_data' # -1
           /\ pc' = "submit"
      /\ pc = "submit" /\ pc' # "submit" /\ acquire_result = "suboptimal" =>
           /\ presented'
           /\ present_result' \in PresentOutcomes
    ]_vars

\* a frame whose acquire reported suboptimal has presented its image, and the
\* surface is dirty
C12_Witness ==
  /\ acquire_result = "suboptimal"
  /\ presented
  /\ surface.swapchain_is_bad

\* ------------------------------------------------------------------ lazy reconstruction

\* C13: once the surface is dirty the swapchain is reconstructed at the next
\* render call with a nonzero window extent and never in a call with a zero
\* extent, and the reconstruction happens only with the whole device idle.
C13_LazyReconstruct ==
  [][ pc = "record" /\ pc' # "record" =>
        /\ reconstructed' =>
             /\ surface.swapchain_is_bad
             /\ window_size > 0
             /\ gpu_queue = <<>>
        /\ surface.swapchain_is_bad /\ window_size > 0 /\ pc' = "submit" => reconstructed'
    ]_vars

\* a render call has reconstructed the swapchain after an earlier call with a
\* dirty surface and a zero extent left it alone
C13_Witness ==
  /\ pc = "submit"
  /\ reconstructed
  /\ faults = MaxFaults
  /\ acquire_result = "ok"

\* ------------------------------------------------------------------ acquire and present

\* the barriers to PRESENT_SRC recorded for swapchain images by this call
PresentReady ==
  {p \in 1..Len(cmd) : /\ cmd[p].op = "pipeline_barrier"
                       /\ cmd[p].img[1] = "SwapchainColor"
                       /\ cmd[p].st = PresentSrc}

\* whether the acquire of this call returned an image
Acquired == acquire_result \in {"ok", "suboptimal"}

\* C14: a render call issues a present if and only if it acquired a
\* swapchain image in that same call, records the present-ready transition of
\* a swapchain image exactly when one was acquired, and attempts an acquire
\* only with a nonzero window extent.
C14_PresentIffAcquired ==
  /\ pc = "submit" =>
       /\ Cardinality(PresentReady) = IF Acquired THEN 1 ELSE 0
       /\ Acquired <=> swapchain_draw_data # -1
       /\ acquire_result # "none" => window_size > 0
       /\ ~presented
  /\ presented => Acquired
  /\ pc \in {"start_update", "update", "wait", "record"} /\ frame_no > 0 =>
       (presented <=> Acquired)

\* a completed render call that acquired an image and presented it
C14_Witness ==
  /\ pc = "start_update"
  /\ presented
  /\ acquire_result = "ok"
  /\ swapchain_draw_data # -1

\* C15: in a frame that acquired a swapchain image the submit waits on the
\* one pending signal of the acquire semaphore, given by that frame's acquire,
\* and the only signal the present can wait for on the render-done semaphore
\* is the one of that frame's submit: no earlier signal is pending on it.
C15_AcquireRenderPresentOrder ==
  pc = "submit" /\ PresentIfAble =>
    /\ frame_resources[cfr].framebuffer_ready = 1
    /\ frame_resources[cfr].render_finished = 0

\* ------------------------------------------------------------------ VKBuffer

\* C16: after expand_to_fit(n) the capacity is at least n; a further call with
\* an equal or smaller n changes neither the capacity nor the allocation; the
\* capacity never decreases.
C16_ExpandToFit ==
  [][ buffer_calls' # buffer_calls =>
        /\ vk_buffer'.size >= vk_buffer.size
        /\ buffer_op'.op = "expand_to_fit" =>
             /\ vk_buffer'.size >= buffer_op'.n
             /\ buffer_op.op = "expand_to_fit" /\ buffer_op'.n <= buffer_op.n =>
                  vk_buffer' = vk_buffer
             /\ buffer_op'.n <= vk_buffer.size => vk_buffer' = vk_buffer
    ]_vars

\* an expand_to_fit that had to grow the buffer
C16_Witness ==
  /\ buffer_op.op = "expand_to_fit"
  /\ buffer_op.n > buffer_prev.size
  /\ vk_buffer.size >= buffer_op.n
  /\ buffer_prev.size > 0

\* C17 as the specification states it: when n exceeds the capacity the
\* buffer is replaced by a fresh allocation of capacity max(n, 2 * capacity).
C17_GrowsToMaxOfBoth ==
  buffer_op.op = "expand_to_fit" /\ buffer_op.n > buffer_prev.size =>
    /\ vk_buffer.allocation \notin dropped \cup {buffer_prev.allocation}
    /\ vk_buffer.size = IF buffer_op.n > 2 * buffer_prev.size THEN buffer_op.n
                     ELSE 2 * buffer_prev.size

\* C17 as the code has it: when n exceeds the capacity the buffer is replaced
\* by a fresh, unmapped allocation of capacity exactly 2 * n, and the old
\* allocation is dropped.
C17_GrowsToTwiceN ==
  buffer_op.op = "expand_to_fit" /\ buffer_op.n > buffer_prev.size =>
    /\ vk_buffer.allocation \notin dropped \cup {buffer_prev.allocation}
    /\ buffer_prev.allocation \in dropped
    /\ vk_buffer.mapped = 0
    /\ vk_buffer.size = 2 * buffer_op.n

\* a grow whose new capacity differs from max(n, 2 * capacity)
C17_Witness ==
  /\ buffer_op.op = "expand_to_fit"
  /\ buffer_op.n > buffer_prev.size
  /\ buffer_prev.size > 0
  /\ vk_buffer.size = 2 * buffer_op.n
  /\ vk_buffer.size # 2 * buffer_prev.size

\* C18: map leaves the buffer unmapped on every exit path, also when the
\* callback panics: every map is followed by exactly one unmap.
C18_MapAlwaysUnmaps ==
  buffer_op.op = "map" => vk_buffer.mapped = 0

\* ------------------------------------------------------------------ state deduplication

\* how many commands of one kind the replay recorded
Emitted(op) == Cardinality({i \in 1..Len(replayed.cmd) : replayed.cmd[i].op = op})

\* the entries of one kind of the replayed log that follow a SetCanvas (the
\* screen, acquired): those replayed with a target set
OnCanvas(op) ==
  {k \in 1..Len(replayed.log) :
     /\ replayed.log[k].op = op
     /\ \E j \in 1..(k - 1) : replayed.log[j].op = "SetCanvas"}

\* the slots for which the last draw appended a SetMaterial
AppendedSlots ==
  {last_draw.appended[i].slot : i \in {j \in 1..Len(last_draw.appended) :
                                         last_draw.appended[j].op = "SetMaterial"}}

\* C19 as the specification states it: replaying SetShader, SetMaterial(slot
\* 0), the same SetMaterial(slot 0) again, DrawMesh onto an open canvas
\* records exactly one bind-pipeline, one bind-descriptor-set and one draw.
C19_ReplayDeduplicates ==
  replayed.done /\ ~replayed.fatal /\ replayed.log = DedupLog =>
    /\ Emitted("bind_pipeline") = 1
    /\ Emitted("bind_descriptor_sets") = 1
    /\ Emitted("draw") = 1

\* C19 as the code has it: the replay records one bind-descriptor-set for
\* every SetMaterial entry it replays with a target set (two for the log
\* above), one bind-pipeline per SetShader and one draw per DrawMesh; the
\* deduplication is done when the log is built: ShaderCfg::draw appends a
\* SetMaterial for a slot exactly when the material's id differs from the id
\* current for that slot.
C19_DrawDeduplicates ==
  /\ replayed.done /\ ~replayed.fatal =>
       /\ Emitted("bind_pipeline") = Cardinality(OnCanvas("SetShader"))
       /\ Emitted("bind_descriptor_sets") = Cardinality(OnCanvas("SetMaterial"))
       /\ Emitted("draw") = Cardinality(OnCanvas("DrawMesh"))
  /\ replayed.done /\ ~replayed.fatal /\ replayed.log = DedupLog =>
       /\ Emitted("bind_pipeline") = 1
       /\ Emitted("bind_descriptor_sets") = 2
       /\ Emitted("draw") = 1
  /\ last_draw.called =>
       \A k \in 1..Len(last_draw.materials) :
         (k - 1 \in AppendedSlots) <=>
           (last_draw.before.current_material_ids[k] # last_draw.materials[k].id)

\* the log with the repeated SetMaterial has been replayed, after a draw that
\* reused the material of the draw before it and appended no SetMaterial
C19_Witness ==
  /\ replayed.done /\ ~replayed.fatal
  /\ replayed.log = DedupLog
  /\ Emitted("bind_descriptor_sets") = 2
  /\ last_draw.called
  /\ last_draw.materials # <<>>
  /\ last_draw.before.current_material_ids[1] = last_draw.materials[1].id
  /\ \E k \in 1..Len(last_draw.before.draw_cmd_queue) :
       last_draw.before.draw_cmd_queue[k].op = "SetMaterial"
  /\ AppendedSlots = {}

\* ------------------------------------------------------------------ the triangle

\* the draw of the triangle example: a 3-vertex non-indexed immediate mesh,
\* instances one(), a shader without materials, no earlier draw in the frame
TriangleDraw ==
  /\ last_draw.called
  /\ last_draw.mesh = [kind |-> "NoIndices", vertices |-> 3, indices |-> 0]
  /\ last_draw.instances = "one"
  /\ shader_slots = 0
  /\ shader_push = 0
  /\ \A k \in 1..Len(last_draw.before.draw_cmd_queue) :
       last_draw.before.draw_cmd_queue[k].op # "DrawMesh"

\* the draws the replay recorded for the entry of the last draw
TriangleReplayed ==
  {i \in 1..Len(replayed.cmd) :
     /\ replayed.cmd[i].op = "draw"
     /\ replayed.cmd[i].at = Len(last_draw.before.draw_cmd_queue) + Len(last_draw.appended)}

\* C20: the draw of the triangle appends exactly one SetShader, no
\* SetMaterial and one DrawMesh, and the replay records the DrawMesh as a
\* non-indexed draw of the vertices 0..3 and the instances 0..1.
C20_TriangleDraw ==
  TriangleDraw =>
    /\ Len(last_draw.appended) = 2
    /\ last_draw.appended[1] = DcSetShader(TriangleShader)
    /\ last_draw.appended[2].op = "DrawMesh"
    /\ last_draw.appended[2].draw.kind = "Immediate"
    /\ ~last_draw.appended[2].draw.indices.some
    /\ last_draw.appended[2].instances = InstancesDraw_Range(0, 1)
    /\ replayed.done /\ ~replayed.fatal /\ replayed.log = frame_data.draw_cmd_queue =>
         /\ Cardinality(TriangleReplayed) =
              IF \E k \in 1..Len(last_draw.before.draw_cmd_queue) :
                   last_draw.before.draw_cmd_queue[k].op = "SetCanvas"
              THEN 1 ELSE 0
         /\ \A i \in TriangleReplayed :
              /\ replayed.cmd[i].call.op = "cmd_draw"
              /\ replayed.cmd[i].call.count = 3
              /\ replayed.cmd[i].call.first = 0
              /\ replayed.cmd[i].call.instance_count = 1
              /\ replayed.cmd[i].call.first_instance = 0

\* the frame of the triangle example has been replayed: set_canvas of the
\* window, the draw, and the draw call recorded for it
C20_Witness ==
  /\ TriangleDraw
  /\ replayed.done /\ ~replayed.fatal
  /\ replayed.log = frame_data.draw_cmd_queue
  /\ frame_data.draw_cmd_queue[1].op = "SetCanvas"
  /\ Len(frame_data.draw_cmd_queue) = 3
  /\ TriangleReplayed # {}

\* ------------------------------------------------------------------ push constants

\* C21: a shader whose push constant type is larger than 128 bytes is
\* refused when it is registered: register_shader does not return a handle
\* for it, and no draw call is the one that fails.
C21_PushCheckedAtRegistration ==
  /\ registered => shader_push <= MAX_PUSH
  /\ draw_fatal # "draw"

\* ------------------------------------------------------------------ the state of a draw

\* the entries of the frame's log
Log == frame_data.draw_cmd_queue

\* whether entry k has a SetShader of the application's shader before it with
\* no SetCanvas and no other SetShader in between
ShaderSet(k) ==
  \E j \in 1..(k - 1) :
    /\ Log[j] = DcSetShader(TriangleShader)
    /\ \A i \in (j + 1)..(k - 1) : Log[i].op \notin {"SetCanvas", "SetShader"}

\* whether entry k has a SetMaterial with the given attributes for the slot
\* before it, with no other SetMaterial for that slot in between
MaterialSet(k, slot, attributes) ==
  \E j \in 1..(k - 1) :
    /\ Log[j] = DcSetMaterial(attributes, slot)
    /\ \A i \in (j + 1)..(k - 1) : ~(Log[i].op = "SetMaterial" /\ Log[i].slot = slot)

\* C29: in every frame, the first included, every DrawMesh entry of the log
\* is preceded by the SetShader of its shader and, for each material slot of
\* the shader, by the SetMaterial of the material the draw used.
C29_DrawsHaveTheirState ==
  \A k \in 1..Len(Log) :
    Log[k].op = "DrawMesh" =>
      /\ ShaderSet(k)
      /\ \A slot \in 0..(shader_slots - 1) : MaterialSet(k, slot, UnitAttributes)

\* ------------------------------------------------------------------ rendering passes

\* how many passes are open after the first p commands of the command buffer:
\* the cmd_begin_rendering calls less the cmd_end_rendering calls
OpenPasses(p) ==
  Cardinality({i \in 1..p : cmd[i].op \in {"begin_rendering_clear", "begin_rendering_load"}})
    - Cardinality({i \in 1..p : cmd[i].op = "end_rendering"})

\* C24: in the command buffer of every render call the begin-rendering and
\* end-rendering commands alternate starting with a begin, every bind and
\* every draw (with its push constants) is recorded inside a pass, and no
\* pass is open at the end of the recording.
C24_PassesWellFormed ==
  pc = "submit" =>
    /\ \A p \in 0..Len(cmd) : OpenPasses(p) \in {0, 1}
    /\ OpenPasses(Len(cmd)) = 0
    /\ \A p \in 1..Len(cmd) :
         cmd[p].op \in {"bind_pipeline", "bind_descriptor_sets", "draw"} =>
           OpenPasses(p - 1) = 1


\* the number of SetMaterial entries of the draw log before entry at: the
\* index in desc_sets of the set step 5 allocated and wrote for entry at
SetOf(at) == Cardinality({j \in 1..(at - 1) : draw_cmd_queue[j].op = "SetMaterial"})

\* C25: every bind-descriptor-set recorded for a SetMaterial entry binds the
\* descriptor set that step 5 allocated and wrote for that entry, also when
\* earlier SetMaterial entries were skipped because no canvas was open
C25_BindsItsOwnSet ==
  pc = "submit" =>
    \A p \in 1..Len(cmd) : cmd[p].op = "bind_descriptor_sets" => cmd[p].set = SetOf(cmd[p].at)


\* the byte payloads of a Create update, each named by the buffer or image
\* it is meant for: the pixels of a texture, the vertices and the indices of
\* a mesh, the data of instances and of a uniform buffer
Payloads(u) ==
  CASE u.ty = "Texture2D" -> {ImgTexture(u.uid)}
    [] u.ty = "Mesh" -> {NoImg} \cup (IF u.def = 1 THEN {MeshIndices(u.uid)} ELSE {})
    [] u.ty \in {"Instances", "Uniform"} -> {NoImg}
    [] OTHER -> {}

\* the staging copies a drain recorded into a target of the object uid
CopiesInto(uid, target) ==
  {i \in 1..Len(drained.staging_buffer_copies) :
     /\ drained.staging_buffer_copies[i].uid = uid
     /\ drained.staging_buffer_copies[i].img = target}

\* C28: for every Create update that carries a byte payload, the drain that
\* realizes it records exactly one staging copy of that payload into the
\* object it created
C28_OneCopyPerPayload ==
  drained.done =>
    \A k \in 1..Len(drained.queue) :
      \A target \in Payloads(drained.queue[k]) :
        Cardinality(CopiesInto(drained.queue[k].uid, target)) = 1


\* step 1 of the render call that is about to record, over the queue the
\* frame handed to it
Drained == drain(Recording, resource_update_queue)

\* an id of a category is recycled within the frame: the queue holds the Free
\* of the old resource and the Create of the new one
Recycled(ty, id) ==
  \E i, j \in 1..Len(resource_update_queue) :
     /\ resource_update_queue[i] = UpdFree(ty, id)
     /\ resource_update_queue[j].op = "Create"
     /\ resource_update_queue[j].ty = ty
     /\ resource_update_queue[j].id = id

\* C30: in every drain each Free finds a realized object at its id (no
\* unwrap fails) and each Create finds the slot of its id empty (no live
\* object is overwritten and dropped outside the destroy queue); when an id
\* is recycled within one frame its Free precedes its Create in the queue
C30_DrainFindsItsObjects ==
  pc = "record" =>
    /\ ~Drained.drain_fatal
    /\ Drained.dropped = <<>>
    /\ \A i, j \in 1..Len(resource_update_queue) :
         /\ resource_update_queue[i].op = "Free"
         /\ resource_update_queue[j].op = "Create"
         /\ resource_update_queue[j].ty = resource_update_queue[i].ty
         /\ resource_update_queue[j].id = resource_update_queue[i].id
         => i < j

\* an id is recycled within one frame and the drain has moved the old
\* object to the destroy queue and put the new one in its slot
C30_Witness ==
  /\ pc = "record"
  /\ \E id \in 0..(MaxResources - 1) :
       /\ Recycled("Framebuffer", id)
       /\ \E k \in 1..Len(Drained.destroy_queue) :
            /\ Drained.destroy_queue[k].uid = SparseVec_get(tables["Framebuffer"], id).uid
            /\ Drained.destroy_queue[k].uid # -1
       /\ SparseVec_get(Drained.tables["Framebuffer"], id).uid
            \notin {-1, SparseVec_get(tables["Framebuffer"], id).uid}


\* the canvas the log has selected before entry k: that of the last SetCanvas
\* entry before k, CanvasNone when there is none
LogCanvas(k) ==
  LET before == {j \in 1..(k - 1) : draw_cmd_queue[j].op = "SetCanvas"}
  IN IF before = {} THEN CanvasNone
     ELSE draw_cmd_queue[CHOOSE j \in before : \A i \in before : i <= j].id

\* the begin-rendering commands recorded for entry k of the log
BeginsOf(k) ==
  {p \in 1..Len(cmd) : /\ cmd[p].at = k
                       /\ cmd[p].op \in {"begin_rendering_clear", "begin_rendering_load"}}

\* C26: the replay of a SetCanvas whose canvas differs from the current one
\* leaves the pass that was open closed and opens one pass on the new canvas,
\* with load-op CLEAR if a clear color was given and LOAD otherwise; the
\* replay of a SetCanvas that names the current canvas records no command
C26_SetCanvasSwitchesPass ==
  pc = "submit" =>
    \A k \in 1..Len(draw_cmd_queue) :
      draw_cmd_queue[k].op = "SetCanvas" =>
        IF draw_cmd_queue[k].id # LogCanvas(k)
        THEN /\ Cardinality(BeginsOf(k)) = 1
             /\ \A p \in BeginsOf(k) :
                  /\ cmd[p].op = IF draw_cmd_queue[k].clear THEN "begin_rendering_clear"
                                 ELSE "begin_rendering_load"
                  /\ OpenPasses(p - 1) = 0
        ELSE \A p \in 1..Len(cmd) : cmd[p].at # k


\* the last command before position p whose op is one of ops, 0 for none
LastBefore(p, ops) ==
  LET before == {i \in 1..(p - 1) : cmd[i].op \in ops}
  IN IF before = {} THEN 0 ELSE CHOOSE i \in before : \A j \in before : j <= i

\* the color-attachment format of the pass begun by command g: the surface
\* format for a swapchain image, the framebuffer's own format otherwise
PassFormat(g) ==
  IF cmd[g].img[1] = "SwapchainColor" THEN SurfaceFormat
  ELSE LET fb == CHOOSE i \in 1..Len(tables["Framebuffer"]) :
                    tables["Framebuffer"][i].uid = cmd[g].uid
       IN framebuffer_format_to_pipeline_format(
            FramebufferFormats[tables["Framebuffer"][fb].def + 1])

\* the pipeline the log has selected before entry k: the object of the last
\* SetShader entry before k, -1 when there is none
LogPipeline(k) ==
  LET before == {j \in 1..(k - 1) : draw_cmd_queue[j].op = "SetShader"}
  IN IF before = {} THEN -1
     ELSE SparseVec_get(tables["Shader"],
                        draw_cmd_queue[CHOOSE j \in before : \A i \in before : i <= j].id).uid

\* the draw recorded at position p is recorded in an open pass, with the
\* variant of the pipeline of the last SetShader that was built for the
\* format of the canvas of that pass
DrawUsesCanvasVariant(p) ==
  LET b == LastBefore(p, {"bind_pipeline"})
      g == LastBefore(p, {"begin_rendering_clear", "begin_rendering_load"})
  IN /\ b # 0 /\ g # 0
     /\ OpenPasses(p - 1) = 1
     /\ cmd[b].uid = LogPipeline(cmd[p].at)
     /\ Variants[cmd[b].variant + 1] = PassFormat(g)

\* C27: at every draw call recorded by replay the bound pipeline is the
\* variant of the most recent SetShader's pipeline whose color-attachment
\* format is the format of the canvas of the open pass
C27_DrawUsesCanvasVariant ==
  pc = "submit" => \A p \in 1..Len(cmd) : cmd[p].op = "draw" => DrawUsesCanvasVariant(p)


\* the sum of the sizes of the declared fields of a struct
RECURSIVE FieldSum(_)
FieldSum(fields) ==
  IF fields = <<>> THEN 0 ELSE size_of(Head(fields)) + FieldSum(Tail(fields))

\* C22: a vertex or uniform type whose size differs from the sum of the
\* sizes of its fields is rejected when its layout is defined; the size of
\* the layout of every accepted type is the sum of its field sizes
C22_AcceptedLayoutHasNoPadding ==
  (layout.defined /\ ~layout.rejected) => layout.size = FieldSum(type_def.fields)

\* C23: for every vertex and texture attribute type, the wire format chosen
\* through the attribute kind declared for the type has the component count
\* and the bit width of the type, whatever its normalization tag; floats are
\* read as floats and bare unsigned integers as unsigned integers
C23_FormatHasShapeOfType ==
  formats.built =>
    \A i \in 1..Len(formats.list) :
      LET t == type_def.fields[i]
      IN /\ formats.list[i].n = Shape(t.ty).n
         /\ formats.list[i].bits = Shape(t.ty).bits
         /\ Shape(t.ty).float => formats.list[i].num = "SFLOAT"
         /\ (~Shape(t.ty).float /\ t.norm = "None") => formats.list[i].num = "UINT"

\* ------------------------------------------------------------------ the semaphores of a frame set

\* C31: on each of the two semaphores of every frame resource set signals and
\* waits alternate, starting with a signal: when a render call reaches its
\* queue_submit a signal of the acquire is pending on framebuffer_ready of the
\* selected set for the submit to wait on, no earlier signal is pending on
\* its render_finished, and no semaphore ever has two signals pending; also
\* in the frames that acquired no image.
C31_SemaphoresAlternate ==
  /\ \A s \in DOMAIN frame_resources :
       /\ frame_resources[s].framebuffer_ready \in {0, 1}
       /\ frame_resources[s].render_finished \in {0, 1}
  /\ pc = "submit" =>
       /\ frame_resources[cfr].framebuffer_ready = 1
       /\ frame_resources[cfr].render_finished = 0

\* ------------------------------------------------------------------ the surface after a reconstruction

\* C32: after a swapchain reconstruction the surface is no longer dirty: a
\* render call that reconstructed the swapchain and whose acquire then
\* returned Ok without the suboptimal flag leaves swapchain_is_bad false, so
\* that the next call does not reconstruct again.
C32_CleanAfterReconstruct ==
  pc = "submit" /\ reconstructed /\ acquire_result = "ok" => ~surface.swapchain_is_bad

\* ------------------------------------------------------------------ the steps of a render call

\* the step of render that records a command: 1 the barriers to TRANSFER_DST
\* of the images created by the update-queue drain, 2 those of the acquired
\* swapchain images, 3 the clears, 4 the staging copies, 5 the steady-state
\* barriers out of TRANSFER_DST, 6 the replay of the draw log, 7 the
\* present-ready transition
StepOf(c) ==
  CASE c.op = "pipeline_barrier" /\ c.st = TransferDst ->
         IF c.img[1] \in {"SwapchainColor", "SwapchainDepth"} THEN 2 ELSE 1
    [] c.op \in {"clear_color_image", "clear_depth_stencil_image"} -> 3
    [] c.op \in {"copy_buffer_to_image", "copy_buffer"} -> 4
    [] c.op = "pipeline_barrier" /\ c.st \notin {TransferDst, PresentSrc}
         /\ c.old = TransferDst -> 5
    [] c.op = "pipeline_barrier" /\ c.st = PresentSrc -> 7
    [] OTHER -> 6

\* C34: the steps of every render call occur in this order: fence wait,
\* fence reset and destroy-queue drain before anything is recorded or drained
\* from the update queue; then the recording, in which the commands of the
\* update-queue drain, the acquire, the clears, the staging copies, the
\* steady-state barriers, the replay and the present-ready transition follow
\* each other in that order; then the submit of the recorded buffer, the
\* present, and the parity flip, in a step of their own after the recording.
C34_StepOrder ==
  [][ /\ \A p, q \in 1..Len(cmd') : p < q => StepOf(cmd'[p]) <= StepOf(cmd'[q])
      /\ pc' = "wait" => pc \in {"update", "wait"}
      /\ pc' = "record" => pc \in {"wait", "record"}
      /\ pc' = "submit" => pc \in {"record", "submit"}
      /\ pc = "wait" /\ pc' # "wait" =>
           /\ pc' = "record"
           /\ frame_resources[cfr].resources_usable
           /\ ~frame_resources'[cfr].resources_usable
           /\ destroy_queue' = <<>>
           /\ cmd = <<>> /\ cmd' = <<>>
           /\ resource_update_queue' = resource_update_queue
           /\ gpu_queue' = gpu_queue
      /\ pc = "record" /\ pc' # "record" =>
           /\ pc' \in {"submit", "fatal"}
           /\ resource_update_queue' = <<>>
           /\ pc' = "submit" =>
                Len(destroy_queue') =
                  Cardinality({k \in 1..Len(resource_update_queue) :
                                 resource_update_queue[k].op = "Free"})
           /\ gpu_queue' = gpu_queue
           /\ ~presented'
           /\ even_frame' = even_frame
           /\ frame_resources'[cfr].resources_usable = frame_resources[cfr].resources_usable
      /\ pc = "submit" /\ pc' # "submit" =>
           /\ Len(gpu_queue') = Len(gpu_queue) + 1
           /\ gpu_queue'[Len(gpu_queue')].refs = Refs(cmd)
           /\ gpu_queue'[Len(gpu_queue')].set = cfr
           /\ pc' = "start_update" => even_frame' = ~even_frame
      /\ even_frame' # even_frame => pc = "submit"
    ]_vars

\* a recorded buffer with commands of each of the seven recording steps
C34_Witness ==
  /\ pc = "submit"
  /\ \A n \in 1..7 : \E p \in 1..Len(cmd) : StepOf(cmd[p]) = n

\* ------------------------------------------------------------------ the two frame resource sets

\* C35: there are exactly two frame resource sets; every completed render
\* call flips the parity exactly once, at its end, and nothing else does, so
\* that a call uses the set the call before it did not use and the set the
\* call two before it used.
C35_ParityAlternates ==
  [][ /\ DOMAIN frame_resources' = {0, 1}
      /\ cfr' \in DOMAIN frame_resources'
      /\ even_frame' # even_frame => pc = "submit" /\ pc' = "start_update"
      /\ pc = "submit" /\ pc' = "start_update" =>
           /\ even_frame' = ~even_frame
           /\ cfr' = 1 - cfr
           /\ frame_no' = frame_no + 1
           /\ frame_resources'[cfr].last_submit = frame_no
           /\ frame_no >= 1 => frame_resources'[1 - cfr].last_submit = frame_no - 1
           /\ frame_no >= 2 => frame_resources[cfr].last_submit = frame_no - 2
    ]_vars

\* three render calls have completed: the first and the third on one set, the
\* second on the other
C35_Witness ==
  /\ frame_no = 3
  /\ frame_resources[1].last_submit = 2
  /\ frame_resources[0].last_submit = 1

\* ------------------------------------------------------------------ remove_unused

\* the occupied slots of an arena whose weak reference has no strong holder
Dead(inner) ==
  {i \in 0..(Len(inner.vec) - 1) : IsSome(inner.vec[i + 1]) /\ inner.vec[i + 1].strong = 0}

\* C37: remove_unused returns exactly the ids of the occupied slots whose
\* weak reference has no strong holder (start_update queues one Free for each
\* id returned), empties those slots, appends each of them once to the free
\* list, and leaves every other slot and the ids already free as they were.
C37_RemoveUnused ==
  [][ pc = "start_update" /\ pc' = "update" =>
        \A cat \in CategorySet :
          LET inner == resources[cat]
              after == resources'[cat]
              added == SubSeq(after.free, Len(inner.free) + 1, Len(after.free))
          IN /\ {resource_update_queue'[k].id :
                   k \in {j \in 1..Len(resource_update_queue') :
                            /\ resource_update_queue'[j].op = "Free"
                            /\ resource_update_queue'[j].ty = cat}} = Dead(inner)
             /\ \A i \in Dead(inner) :
                  Cardinality(Frees(resource_update_queue', cat, i)) = 1
             /\ Len(after.vec) = Len(inner.vec)
             /\ \A i \in 0..(Len(inner.vec) - 1) :
                  after.vec[i + 1] = IF i \in Dead(inner) THEN NoSlot ELSE inner.vec[i + 1]
             /\ SubSeq(after.free, 1, Len(inner.free)) = inner.free
             /\ Len(added) = Cardinality(Dead(inner))
             /\ Range(added) = Dead(inner)
    ]_vars

\* a frame start has collected two dead framebuffers at once, next to the
\* live resources of the console
C37_Witness ==
  /\ pc = "update"
  /\ Cardinality({k \in 1..Len(resource_update_queue) :
                    resource_update_queue[k].op = "Free"}) = 2
  /\ Len(resources["Framebuffer"].free) = 2
  /\ \A i \in 1..2 : ~IsSome(resources["Framebuffer"].vec[i])
  /\ IsSome(resources["Texture2D"].vec[1])

\* ------------------------------------------------------------------ the barrier chain of an image

\* C36: change_layout_mem_barrier(L, A) returns a barrier whose old layout
\* and source access are the pair the image stored before the call and whose
\* new layout and destination access are (L, A), and the image stores (L, A)
\* afterwards; the first barrier of a new image starts from (UNDEFINED, no
\* access) and every later one from the destination of the one before it.
C36_BarrierChain ==
  /\ \A k \in 1..Len(image_calls) :
       LET call == image_calls[k]
       IN /\ call.barrier.old = call.before
          /\ call.barrier.new = ImgState(call.layout, call.access_mask)
          /\ call.after = ImgState(call.layout, call.access_mask)
          /\ call.barrier.old = IF k = 1 THEN ImgState("UNDEFINED", "NONE")
                                ELSE image_calls[k - 1].barrier.new
  /\ vk_image = IF image_calls = <<>> THEN ImgState("UNDEFINED", "NONE")
                ELSE image_calls[Len(image_calls)].barrier.new

\* three barriers of one image, each to a state other than the one it leaves
C36_Witness ==
  /\ Len(image_calls) = 3
  /\ \A k \in 1..3 : image_calls[k].barrier.old # image_calls[k].barrier.new
  /\ image_calls[2].barrier.old.layout = "TRANSFER_DST_OPTIMAL"
  /\ image_calls[3].barrier.old.layout = "SHADER_READ_ONLY_OPTIMAL"

\* ------------------------------------------------------------------ expand_to_fit on the scratch buffers

\* the scratch buffers that exist: the four of either set
ScratchAlive ==
  {scratch_sets[s][field].allocation :
     s \in {0, 1}, field \in {"staging_buffer", "vertex_buffer", "index_buffer", "uniform_buffer"}}

\* C33: a buffer that expand_to_fit replaces and destroys belongs to the
\* frame set of the render call that replaces it, and at that point it is
\* named neither by a command buffer pending on the GPU nor by a command
\* already recorded in the frame; every buffer a pending command buffer names
\* still exists.
C33_ExpandDropsUnreferenced ==
  /\ \A k \in 1..Len(scratch_frame.dropped) :
       LET d == scratch_frame.dropped[k]
       IN /\ d.buffer[1] = scratch_frame.set
          /\ d.buffer \notin d.pending
          /\ d.buffer \notin d.recorded
  /\ ScratchPending \subseteq ScratchAlive

\* a render call has replaced a buffer that the previous submission of its
\* set had named, after commands of the frame were recorded and while the
\* submission of the other set was pending
C33_Witness ==
  \E k \in 1..Len(scratch_frame.dropped) :
    /\ scratch_frame.dropped[k].used
    /\ scratch_frame.dropped[k].pending # {}
    /\ scratch_frame.dropped[k].recorded # {}

\* ------------------------------------------------------------------ the layout of the staging buffer

\* the lengths of all payloads of the drained queue, in queue order
RECURSIVE Flatten(_)
Flatten(seqs) == IF seqs = <<>> THEN <<>> ELSE Head(seqs) \o Flatten(Tail(seqs))

\* C38: in a frame, the source offset of every staging copy is a multiple of
\* 64, there is one copy per payload with the payload's length, the byte
\* ranges of different payloads do not overlap, and every range lies within the
\* capacity the staging buffer has after expand_to_fit was applied to the total.
C38_StagingLayout ==
  drained.done =>
    LET copies == staging.staging_buffer_copies
        lens == Flatten(staging.payloads)
    IN /\ Len(copies) = Len(lens)
       /\ \A i \in 1..Len(copies) :
            /\ copies[i].bytes = lens[i]
            /\ copies[i].copy.offset = copies[i].start
            /\ copies[i].copy.offset % 64 = 0
            /\ copies[i].start + copies[i].bytes <= staging.staging_buffer_size
            /\ copies[i].start + copies[i].bytes <= staging.capacity
       /\ \A i, j \in 1..Len(copies) :
            i < j => copies[i].start + copies[i].bytes <= copies[j].start

\* a frame whose payloads made the staging buffer grow, with an image copy
\* and a buffer copy among them, and a payload that needed padding before the
\* next one
C38_Witness ==
  /\ drained.done
  /\ staging.capacity > StagingBytes
  /\ \E i, j \in 1..Len(staging.staging_buffer_copies) :
       /\ j = i + 1
       /\ staging.staging_buffer_copies[i].copy.to = "Image"
       /\ staging.staging_buffer_copies[j].copy.to = "Buffer"
       /\ staging.staging_buffer_copies[i].bytes % 64 # 0
       /\ staging.staging_buffer_copies[j].start >
            staging.staging_buffer_copies[i].start + staging.staging_buffer_copies[i].bytes

\* ------------------------------------------------------------------ the draw call of a DrawMesh

\* whether the mesh source of a DrawMesh entry carries indices
CarriesIndices(draw) ==
  \/ draw.kind = "Immediate" /\ draw.indices.some
  \/ draw.kind = "Resource" /\ UnitMeshData[draw.id + 1].kind # "NoIndices"

\* the length of the instance range of a DrawMesh entry, or the element
\* count of its instance source
InstanceCount(instances) ==
  CASE instances.kind = "Range" -> instances.range[2] - instances.range[1]
    [] instances.kind = "Immediate" -> instances.n
    [] instances.kind = "Resource" -> UnitInstanceData[instances.id + 1]

\* the draw call recorded for one replayed DrawMesh entry c
DrawAsClaimed(c, call) ==
  /\ call.op = IF CarriesIndices(c.draw) THEN "cmd_draw_indexed" ELSE "cmd_draw"
  /\ call.instance_count = InstanceCount(c.instances)
  /\ Len(call.buffers) = Len(call.offsets)
  /\ Len(call.buffers) = (IF c.draw.kind = "Range" THEN 0 ELSE 1)
                           + (IF c.instances.kind = "Range" THEN 0 ELSE 1)
  /\ c.instances.kind = "Immediate" =>
       /\ call.buffers[Len(call.buffers)] = <<"cfr", -1, "vertex_buffer">>
       /\ call.offsets[Len(call.offsets)] = c.instances.start
  /\ c.instances.kind = "Resource" =>
       /\ call.buffers[Len(call.buffers)] = <<"Instances", c.instances.id, "buffer">>
       /\ call.offsets[Len(call.offsets)] = 0
  /\ call.first_instance = IF c.instances.kind = "Range" THEN c.instances.range[1] ELSE 0
  /\ c.draw.kind = "Resource" =>
       /\ call.buffers[1] = <<"Mesh", c.draw.id, "vertex_buffer">>
       /\ call.offsets[1] = 0
       /\ CarriesIndices(c.draw) =>
            /\ call.index_buffer = <<"Mesh", c.draw.id, "indices">>
            /\ call.index_offset = 0
            /\ call.count = UnitMeshData[c.draw.id + 1].indices
       /\ ~CarriesIndices(c.draw) =>
            /\ call.count = UnitMeshData[c.draw.id + 1].vertices
            /\ call.first = 0
  /\ c.draw.kind = "Immediate" =>
       /\ call.buffers[1] = <<"cfr", -1, "vertex_buffer">>
       /\ call.offsets[1] = c.draw.start
       /\ CarriesIndices(c.draw) =>
            /\ call.index_buffer = <<"cfr", -1, "index_buffer">>
            /\ call.index_offset = c.draw.indices.start
            /\ call.count = c.draw.indices.n
       /\ ~CarriesIndices(c.draw) =>
            /\ call.count = c.draw.n
            /\ call.first = 0
  /\ c.draw.kind = "Range" =>
       /\ call.count = c.draw.range[2] - c.draw.range[1]
       /\ call.first = c.draw.range[1]

\* C39: the replay of a DrawMesh issues an indexed draw exactly when the
\* mesh source carries indices and a non-indexed draw otherwise; a persistent
\* mesh is bound at offset 0 of its own vertex and index buffers, an immediate
\* mesh at its recorded start offsets in the vertex and index scratch buffers
\* of the frame set, a raw range binds no vertex buffer for the mesh; the
\* instance count is the length of the instance range or the element count
\* of the instance source.
C39_DrawShape ==
  replayed.done /\ ~replayed.fatal =>
    \A i \in 1..Len(replayed.cmd) :
      replayed.cmd[i].op = "draw" =>
        DrawAsClaimed(replayed.log[replayed.cmd[i].at], replayed.cmd[i].call)

\* a replay that drew a persistent mesh with indices and persistent instances
C39_Witness ==
  /\ replayed.done /\ ~replayed.fatal
  /\ \E i \in 1..Len(replayed.cmd) :
       /\ replayed.cmd[i].op = "draw"
       /\ replayed.log[replayed.cmd[i].at].draw.kind = "Resource"
       /\ replayed.log[replayed.cmd[i].at].instances.kind = "Resource"
       /\ replayed.cmd[i].call.op = "cmd_draw_indexed"
       /\ replayed.cmd[i].call.is_u32

====
